---------------------------- MODULE Spec2Model ----------------------------
(***************************************************************************)
(* A model of format_tickets.py (Fetch-ServiceNow-Tickets): the text       *)
(* cleaner, the message extractor, the attachment namer, the timeline      *)
(* builder, the per-ticket pipeline and the asynchronous dispatcher.       *)
(*                                                                         *)
(* Each component has its own specification (SpecClean, ...), all over the *)
(* one set of variables below; a specification leaves the variables of the *)
(* other components at their initial, idle values.                         *)
(***************************************************************************)
EXTENDS Integers, Sequences, FiniteSets, TLC

VARIABLES
    cleanText,      \* clean_message_text: the `text` argument (a string, as tokens)
    cleanAuthor,    \* clean_message_text: the `author` argument (None or a string)
    cleanRuns,      \* the values returned by successive clean_message_text calls
    naAttachments,  \* extract_attachments: data["attachments"], a list of dicts
    naIndex,        \* extract_attachments: how many entries the loop has handled
    naUsed,         \* extract_attachments: used_names
    naResolved,     \* extract_attachments: resolved (each with its resolved_name)
    naFiles,        \* the names of the files written into dest_dir
    naStatus,       \* "running", "returned" or "raised"
    exComments,     \* extract_messages: discussions["customer_facing_comments"]
    exNotes,        \* extract_messages: discussions["internal_work_notes"]
    exMessages,     \* extract_messages: messages, the list before deduplication
    exDeduped,      \* extract_messages: deduped, the list returned
    exStatus,       \* "running", "returned" or "raised"
    tlMessages,     \* build_timeline: the messages argument
    tlAttachments,  \* build_timeline: the attachments argument
    tlSorted,       \* build_timeline: timeline after timeline.sort
    tlMerged,       \* build_timeline: merged, the list returned
    tlStatus,       \* "running", "returned" or "raised"
    tkData,         \* process_ticket_file: data, the record json.load returned
    tkPc,           \* where the call is: "start", "attachments", "returned", "raised"
    tkMessages,     \* process_ticket_file: messages, once extract_messages returned
    tkIndex,        \* extract_attachments: how many entries the loop has handled
    tkUsed,         \* extract_attachments: used_names
    tkResolved,     \* extract_attachments: resolved
    tkDir,          \* ticket_dir once os.makedirs created it: <<year, month, number>>
    tkWritten,      \* the names of the files written into ticket_dir, in order
    tkMarkdown,     \* the lines written to ticket.md
    mnCpuCount,     \* main_async: what os.cpu_count() returns
    mnFiles,        \* main_async: paths, each file by what its pipeline does
    mnTask,         \* the state of each process_with_limit task
    mnThread,       \* the state of the worker thread of each task
    mnPermits,      \* the value of the semaphore
    mnCompleted,    \* as_completed: the tasks that are done and not yet awaited
    mnMain,         \* where main_async is: "looping", "finished" or "aborted"
    mnDone,         \* main_async: done
    mnWritten,      \* the files whose ticket.md has been written
    fdData,         \* the record of each incident file whose pipeline runs
    fdPc,           \* each pipeline: "queued", "writing", "returned" or "raised"
    fdStep,         \* each pipeline: how many files it has written
    fdDirs,         \* the ticket directories that exist below OUTPUT_ROOT
    fdFiles,        \* the files below OUTPUT_ROOT: directory, name and content
    fdWriters       \* which pipeline has written which path

cleanVars == <<cleanText, cleanAuthor, cleanRuns>>
namesVars == <<naAttachments, naIndex, naUsed, naResolved, naFiles, naStatus>>
extractVars == <<exComments, exNotes, exMessages, exDeduped, exStatus>>
timelineVars == <<tlMessages, tlAttachments, tlSorted, tlMerged, tlStatus>>

ticketVars ==
    <<tkData, tkPc, tkMessages, tkIndex, tkUsed, tkResolved, tkDir, tkWritten,
      tkMarkdown>>
mainVars ==
    <<mnCpuCount, mnFiles, mnTask, mnThread, mnPermits, mnCompleted, mnMain,
      mnDone, mnWritten>>

foldersVars == <<fdData, fdPc, fdStep, fdDirs, fdFiles, fdWriters>>

vars ==
    <<cleanVars, namesVars, extractVars, timelineVars, ticketVars, mainVars,
      foldersVars>>

\* What each specification leaves unchanged: the other components' variables.
cleanRest ==
    <<namesVars, extractVars, timelineVars, ticketVars, mainVars,
      foldersVars>>
namesRest ==
    <<cleanVars, extractVars, timelineVars, ticketVars, mainVars,
      foldersVars>>
extractRest ==
    <<cleanVars, namesVars, timelineVars, ticketVars, mainVars,
      foldersVars>>
timelineRest ==
    <<cleanVars, namesVars, extractVars, ticketVars, mainVars,
      foldersVars>>
ticketRest ==
    <<cleanVars, namesVars, extractVars, timelineVars, mainVars,
      foldersVars>>
foldersRest ==
    <<cleanVars, namesVars, extractVars, timelineVars, ticketVars, mainVars>>
mainRest ==
    <<cleanVars, namesVars, extractVars, timelineVars, ticketVars,
      foldersVars>>

(***************************************************************************)
(* Bounds of the model.                                                    *)
(***************************************************************************)
\* The longest message body, in lines, that SpecClean feeds to the cleaner.
MaxLines == 3
\* The longest attachment list that SpecNames feeds to extract_attachments.
MaxNames == 4
\* The longest comment list and note list that SpecExtract feeds to
\* extract_messages.
MaxComments == 3
MaxNotes == 2
\* The longest message and attachment lists that SpecTimeline feeds to
\* build_timeline.
MaxTlMessages == 2
MaxTlAttachments == 3
\* The most entries (comments, notes and attachments together) of a record
\* that SpecTicket feeds to process_ticket_file.
MaxTkEntries == 3
\* The most incident files, and the most processors, that SpecMain gives
\* main_async.
MaxFiles == 4
MaxCpuCount == 1
\* The most incident files whose pipelines SpecFolders runs side by side.
MaxFdFiles == 2

(***************************************************************************)
(* Python values.                                                          *)
(***************************************************************************)
\* Python's str values are sequences of tokens (characters, or larger pieces
\* where the code never looks inside); "" is the empty sequence, and None is
\* a sequence no string equals.
None == <<"<None>">>
EmptyStr == <<>>

(***************************************************************************)
(* The idle values: what a component's variables hold in the               *)
(* specifications of the other components.                                 *)
(***************************************************************************)
CleanIdle == cleanText = <<>> /\ cleanAuthor = None /\ cleanRuns = <<>>

NamesIdle ==
    /\ naAttachments = <<>>
    /\ naIndex = 0
    /\ naUsed = {}
    /\ naResolved = <<>>
    /\ naFiles = {}
    /\ naStatus = "idle"

ExtractIdle ==
    /\ exComments = <<>>
    /\ exNotes = <<>>
    /\ exMessages = <<>>
    /\ exDeduped = <<>>
    /\ exStatus = "idle"

TimelineIdle ==
    /\ tlMessages = <<>>
    /\ tlAttachments = <<>>
    /\ tlSorted = <<>>
    /\ tlMerged = <<>>
    /\ tlStatus = "idle"

TicketIdle ==
    /\ tkData = <<>>
    /\ tkPc = "idle"
    /\ tkMessages = <<>>
    /\ tkIndex = 0
    /\ tkUsed = {}
    /\ tkResolved = <<>>
    /\ tkDir = <<>>
    /\ tkWritten = <<>>
    /\ tkMarkdown = <<>>

MainIdle ==
    /\ mnCpuCount = 0
    /\ mnFiles = <<>>
    /\ mnTask = <<>>
    /\ mnThread = <<>>
    /\ mnPermits = 0
    /\ mnCompleted = <<>>
    /\ mnMain = "idle"
    /\ mnDone = 0
    /\ mnWritten = {}

FoldersIdle ==
    /\ fdData = <<>>
    /\ fdPc = <<>>
    /\ fdStep = <<>>
    /\ fdDirs = {}
    /\ fdFiles = {}
    /\ fdWriters = {}

(***************************************************************************)
(* Small helpers on sequences.                                             *)
(***************************************************************************)
\* Python's list.pop(i) (1-based here): the list without its i-th element.
Pop(s, i) == SubSeq(s, 1, i - 1) \o SubSeq(s, i + 1, Len(s))

\* All sequences over S of length at most n.
SeqsUpTo(S, n) == UNION {[1..k -> S] : k \in 0..n}


(***************************************************************************)
(* Strings.  A message body is a Python str; it is modelled as a sequence  *)
(* of tokens, each either the line break NL or the whole content of one    *)
(* non-empty line.  The lines are drawn from LineAlphabet, one concrete    *)
(* line per class of line the cleaner tells apart; the predicates below    *)
(* tabulate what the source's regular expressions answer on these lines.   *)
(***************************************************************************)
NL == "\n"

LineAlphabet ==
    { "",                            \* an empty line
      "Reply from: x",               \* leading reply metadata
      "Hi John,",                    \* a greeting
      "2024-01-02",                  \* a date stamp
      "On Tue at 3pm, X wrote:",     \* a quoted-mail header
      "NERSC Consulting",            \* an organisational footer
      "Best,",                       \* a signoff
      "Thanks",                      \* a signoff that is also a bare name
      "John Smith",                  \* a bare name (the author's, for AuthorJohn)
      "The disk is full." }          \* content (it also matches the name pattern)

\* An author is a display name followed by its parenthesised qualifiers, one
\* token each: "John Smith (NERSC)" is <<"John Smith", " (NERSC)">>.
AuthorJohn == <<"John Smith", " (NERSC)">>
Authors == {None, AuthorJohn}

\* str.splitlines(): every NL ends a line; a last line without NL is kept.
RECURSIVE SplitFrom(_, _, _)
SplitFrom(text, i, cur) ==
    IF i > Len(text)
    THEN IF cur = "" THEN <<>> ELSE <<cur>>
    ELSE IF text[i] = NL
         THEN <<cur>> \o SplitFrom(text, i + 1, "")
         ELSE SplitFrom(text, i + 1, text[i])

SplitLines(text) == SplitFrom(text, 1, "")

\* "\n".join(lines): a line break between consecutive lines, none at the end.
RECURSIVE JoinLines(_)
JoinLines(lines) ==
    IF lines = <<>> THEN <<>>
    ELSE LET head == IF Head(lines) = "" THEN <<>> ELSE <<Head(lines)>>
         IN  IF Len(lines) = 1 THEN head
             ELSE head \o <<NL>> \o JoinLines(Tail(lines))

(***************************************************************************)
(* The line predicates of clean_message_text.                              *)
(***************************************************************************)
\* line.strip() == ""
IsBlank(line) == line = ""

\* strip_leading_metadata's four startswith tests on the lowered line.
IsLeadingMetadata(line) == line \in {"Reply from: x"}

is_greeting_line(line) == line \in {"Hi John,"}

is_trailing_date_line(line) == line \in {"2024-01-02"}

\* tail.lower().startswith("on ") and " at " in tail.lower()
IsOnAtLine(line) == line \in {"On Tue at 3pm, X wrote:"}

is_footer_line(line) == line \in {"NERSC Consulting"}

is_signoff_line(line) == line \in {"Best,", "Thanks"}

is_name_line(line) ==
    line \in {"NERSC Consulting", "Thanks", "John Smith", "The disk is full."}

\* The tokens that open a qualifier (they start with " (").
QualifierTokens == {" (NERSC)", " (Staff Work Notes)", " (staff work notes)"}

\* author.split(" (", 1)[0].strip(): the display name before any qualifier.
NameBase(author) ==
    IF author = EmptyStr \/ Head(author) \in QualifierTokens THEN ""
    ELSE Head(author)

\* The strings the author's name stands for: the full name, the first name,
\* and the first name with the last initial (with and without a period),
\* compared case-insensitively with the line.
AuthorMatches(name_base) ==
    IF name_base = "John Smith" THEN {"John Smith", "John", "John S", "John S."}
    ELSE IF name_base = "Jane Doe" THEN {"Jane Doe", "Jane", "Jane D", "Jane D."}
    ELSE {name_base}

is_author_name_line(line, author) ==
    /\ author # None /\ author # EmptyStr
    /\ ~IsBlank(line)
    /\ NameBase(author) # ""
    /\ line \in AuthorMatches(NameBase(author))

(***************************************************************************)
(* The stages of clean_message_text, in the order of the source.           *)
(***************************************************************************)
\* The index of the first (last) non-blank line, 0 when there is none.
FirstNonBlank(f) ==
    IF \E i \in 1..Len(f) : ~IsBlank(f[i])
    THEN CHOOSE i \in 1..Len(f) :
            ~IsBlank(f[i]) /\ \A j \in 1..(i - 1) : IsBlank(f[j])
    ELSE 0

LastNonBlank(f) ==
    IF \E i \in 1..Len(f) : ~IsBlank(f[i])
    THEN CHOOSE i \in 1..Len(f) :
            ~IsBlank(f[i]) /\ \A j \in (i + 1)..Len(f) : IsBlank(f[j])
    ELSE 0

RECURSIVE strip_leading_metadata(_)
strip_leading_metadata(f) ==
    LET idx == FirstNonBlank(f)
    IN  IF idx = 0 THEN f
        ELSE IF IsLeadingMetadata(f[idx])
             THEN strip_leading_metadata(Pop(f, idx))
             ELSE f

StripGreeting(f) ==
    LET i == FirstNonBlank(f)
    IN  IF i # 0 /\ is_greeting_line(f[i]) THEN Pop(f, i) ELSE f

StripTrailingDate(f) ==
    LET last_non_empty == LastNonBlank(f)
    IN  IF last_non_empty = 0 THEN f
        ELSE IF is_trailing_date_line(f[last_non_empty])
             THEN Pop(f, last_non_empty)
             ELSE IF IsOnAtLine(f[last_non_empty])
                  THEN Pop(f, last_non_empty)
                  ELSE f

\* A footer filter that stops after the first footer line it removes
\* (the mutant of StripFooters).
StripFootersFirstOnly(f) ==
    IF \E i \in 1..Len(f) : is_footer_line(f[i])
    THEN Pop(f, CHOOSE i \in 1..Len(f) :
                    is_footer_line(f[i]) /\ \A j \in 1..(i - 1) : ~is_footer_line(f[j]))
    ELSE f

StripFooters(f) == SelectSeq(f, LAMBDA line : ~is_footer_line(line))

StripSignoff(f) ==
    LET last_non_empty == LastNonBlank(f)
    IN  IF last_non_empty = 0 THEN f
        ELSE IF is_signoff_line(f[last_non_empty])
             THEN Pop(f, last_non_empty)
             ELSE LET signoff_idx == LastNonBlank(SubSeq(f, 1, last_non_empty - 1))
                  IN  IF /\ signoff_idx # 0
                         /\ is_signoff_line(f[signoff_idx])
                         /\ is_name_line(f[last_non_empty])
                      THEN SubSeq(f, 1, signoff_idx - 1)
                               \o SubSeq(f, last_non_empty + 1, Len(f))
                      ELSE f

StripAuthorLines(f, author) ==
    SelectSeq(f, LAMBDA line : ~is_author_name_line(line, author))

\* The two closing while loops: blank lines popped from both ends.
TrimBlank(f) ==
    IF FirstNonBlank(f) = 0 THEN <<>>
    ELSE SubSeq(f, FirstNonBlank(f), LastNonBlank(f))

CleanLines(lines, author) ==
    TrimBlank(
      StripAuthorLines(
        StripSignoff(
          StripFooters(
            StripTrailingDate(
              StripGreeting(
                strip_leading_metadata(lines))))), author))

clean_message_text(text, author) == JoinLines(CleanLines(SplitLines(text), author))

(***************************************************************************)
(* SpecClean: clean_message_text applied to a body, then to its own output.*)
(***************************************************************************)
CleanInputs == {JoinLines(ls) : ls \in SeqsUpTo(LineAlphabet, MaxLines)}

InitClean ==
    /\ cleanText \in CleanInputs
    /\ cleanAuthor \in Authors
    /\ cleanRuns = <<>>
    /\ NamesIdle /\ ExtractIdle /\ TimelineIdle /\ TicketIdle /\ MainIdle
    /\ FoldersIdle

\* The first call: clean_message_text(t, a).
CleanFirst ==
    /\ cleanRuns = <<>>
    /\ cleanRuns' = <<clean_message_text(cleanText, cleanAuthor)>>
    /\ UNCHANGED <<cleanText, cleanAuthor, cleanRest>>

\* The second call, on the first call's result with the same author.
CleanAgain ==
    /\ Len(cleanRuns) = 1
    /\ cleanRuns' = Append(cleanRuns, clean_message_text(cleanRuns[1], cleanAuthor))
    /\ UNCHANGED <<cleanText, cleanAuthor, cleanRest>>

NextClean == CleanFirst \/ CleanAgain

SpecClean == InitClean /\ [][NextClean]_vars

(***************************************************************************)
(* C1 -- idempotence of the text cleaner.                                  *)
(***************************************************************************)
\* The lines of a cleaned text on which no anchored stage fires again: the
\* first non-blank line is neither leading metadata nor a greeting, the last
\* non-blank line is neither a date stamp, nor an "on ... at" header, nor a
\* signoff, nor a bare name that follows a signoff.
Settled(f) ==
    LET first == FirstNonBlank(f)
        last  == LastNonBlank(f)
        prev  == LastNonBlank(SubSeq(f, 1, last - 1))
    IN  \/ first = 0
        \/ /\ ~IsLeadingMetadata(f[first])
           /\ ~is_greeting_line(f[first])
           /\ ~is_trailing_date_line(f[last])
           /\ ~IsOnAtLine(f[last])
           /\ ~is_signoff_line(f[last])
           /\ ~(prev # 0 /\ is_signoff_line(f[prev]) /\ is_name_line(f[last]))

\* s can be obtained from t by deleting elements.
RECURSIVE IsSubSeq(_, _)
IsSubSeq(s, t) ==
    IF s = <<>> THEN TRUE
    ELSE IF t = <<>> THEN FALSE
    ELSE IF Head(s) = Head(t) THEN IsSubSeq(Tail(s), Tail(t))
    ELSE IsSubSeq(s, Tail(t))

\* C1 as claimed: clean_message_text(clean_message_text(t, a), a) equals
\* clean_message_text(t, a) for every body t and every author a.
C1_Idempotent ==
    Len(cleanRuns) = 2 => cleanRuns[2] = cleanRuns[1]

\* C1 as amended: the second cleaning only deletes lines of the first
\* result, and it returns the first result unchanged whenever that result is
\* settled (no leading metadata or greeting on its first line, no date
\* stamp, "on ... at" header, signoff or signoff-plus-name at its end).
C1_IdempotentWhenSettled ==
    Len(cleanRuns) = 2 =>
        /\ IsSubSeq(SplitLines(cleanRuns[2]), SplitLines(cleanRuns[1]))
        /\ Settled(SplitLines(cleanRuns[1])) => cleanRuns[2] = cleanRuns[1]

\* A body whose greeting and signoff the first cleaning removed, leaving a
\* settled, non-empty text that the second cleaning was then applied to.
C1_Witness ==
    /\ Len(cleanRuns) = 2
    /\ cleanText = <<"Hi John,", NL, "The disk is full.", NL, "Best,">>
    /\ cleanRuns[1] = <<"The disk is full.">>
    /\ Settled(SplitLines(cleanRuns[1]))

(***************************************************************************)
(* Dictionaries.  A JSON object is a record; a key the object lacks reads  *)
(* as None, as dict.get does.                                               *)
(***************************************************************************)
Get(d, k) == IF k \in DOMAIN d THEN d[k] ELSE None

\* Python's truth test on the values met here (None and strings).
Truthy(v) == v # None /\ v # EmptyStr

\* The first truthy value among the keys, in their order; None otherwise.
RECURSIVE pick_first_key(_, _)
pick_first_key(data, keys) ==
    IF keys = <<>> THEN None
    ELSE IF Truthy(Get(data, Head(keys))) THEN Get(data, Head(keys))
    ELSE pick_first_key(data, Tail(keys))

\* require_value raises exactly when this holds.
RequireRaises(value) == value = None \/ value = EmptyStr

ATTACHMENT_TIMESTAMP_KEYS ==
    <<"timestamp", "sys_created_on", "created_on", "created_at", "created">>

ATTACHMENT_NAME_KEYS == <<"file_name", "filename", "name">>

ATTACHMENT_CONTENT_KEYS ==
    <<"content_base64", "payload_base64", "file_bytes", "content", "data", "body">>

MESSAGE_TIMESTAMP_KEYS ==
    <<"timestamp", "sys_created_on", "created_on", "created_at", "created">>

(***************************************************************************)
(* File names.  A file name is the sequence of its characters, so that     *)
(* sanitising, splitting off the extension and inserting a counter are     *)
(* computed as the source computes them.                                   *)
(***************************************************************************)
Letters ==
    {"a", "b", "c", "d", "e", "f", "g", "h", "i", "j", "k", "l", "m",
     "n", "o", "p", "q", "r", "s", "t", "u", "v", "w", "x", "y", "z"}

DigitChars == <<"0", "1", "2", "3", "4", "5", "6", "7", "8", "9">>

\* The characters the class [A-Za-z0-9._ -] accepts.
SafeChars ==
    Letters \cup {DigitChars[i] : i \in 1..Len(DigitChars)} \cup {".", "_", " ", "-"}

TicketMd == <<"t", "i", "c", "k", "e", "t", ".", "m", "d">>
AttachmentName == <<"a", "t", "t", "a", "c", "h", "m", "e", "n", "t">>
LogTxt == <<"l", "o", "g", ".", "t", "x", "t">>
Log2Txt == <<"l", "o", "g", "_", "2", ".", "t", "x", "t">>

\* name.replace("/", "_").replace("\\", "_")
ReplaceSeparators(name) ==
    [i \in 1..Len(name) |-> IF name[i] \in {"/", "\\"} THEN "_" ELSE name[i]]

\* re.sub(r"[^A-Za-z0-9._ -]+", "_", name): every maximal run of characters
\* outside the class becomes one underscore.
RECURSIVE ReplaceUnsafeRuns(_)
ReplaceUnsafeRuns(name) ==
    IF name = <<>> THEN <<>>
    ELSE IF Head(name) \in SafeChars
         THEN <<Head(name)>> \o ReplaceUnsafeRuns(Tail(name))
         ELSE IF Len(name) > 1 /\ name[2] \notin SafeChars
              THEN ReplaceUnsafeRuns(Tail(name))
              ELSE <<"_">> \o ReplaceUnsafeRuns(Tail(name))

\* name.strip(" ."): spaces and dots removed from both ends.
RECURSIVE StripSpaceDot(_)
StripSpaceDot(name) ==
    IF name = <<>> THEN <<>>
    ELSE IF Head(name) \in {" ", "."} THEN StripSpaceDot(Tail(name))
    ELSE IF name[Len(name)] \in {" ", "."}
         THEN StripSpaceDot(SubSeq(name, 1, Len(name) - 1))
         ELSE name

sanitize_filename(name) ==
    LET stripped == StripSpaceDot(ReplaceUnsafeRuns(ReplaceSeparators(name)))
    IN  IF stripped = <<>> THEN AttachmentName ELSE stripped

\* os.path.splitext on a name without separators: the extension starts at
\* the last dot, unless only dots precede that dot.
LastDot(name) ==
    IF \E i \in 1..Len(name) : name[i] = "."
    THEN CHOOSE i \in 1..Len(name) :
            name[i] = "." /\ \A j \in (i + 1)..Len(name) : name[j] # "."
    ELSE 0

SplitExt(name) ==
    LET dot == LastDot(name)
    IN  IF dot # 0 /\ \E j \in 1..(dot - 1) : name[j] # "."
        THEN [root |-> SubSeq(name, 1, dot - 1), ext |-> SubSeq(name, dot, Len(name))]
        ELSE [root |-> name, ext |-> <<>>]

\* str(counter): the decimal digits of a natural number.
RECURSIVE Digits(_)
Digits(n) ==
    IF n < 10 THEN <<DigitChars[n + 1]>>
    ELSE Digits(n \div 10) \o <<DigitChars[(n % 10) + 1]>>

\* f"{root}_{counter}{ext}"
Candidate(name, counter) ==
    SplitExt(name).root \o <<"_">> \o Digits(counter) \o SplitExt(name).ext

Free(candidate, used) == candidate \notin used /\ candidate # TicketMd

\* A unique_filename that forgets that "ticket.md" is reserved (a mutant).
UniqueNameIgnoringTicketMd(name, used) ==
    IF name \notin used THEN name
    ELSE Candidate(name,
            CHOOSE c \in 2..(Cardinality(used) + 2) :
                /\ Candidate(name, c) \notin used
                /\ \A b \in 2..(c - 1) : Candidate(name, b) \in used)

\* unique_filename's return value.  The while loop ends at the first counter
\* whose candidate is free; at most |used| + 1 candidates are taken, so the
\* search below covers every counter the loop can reach.
UniqueName(name, used) ==
    IF Free(name, used) THEN name
    ELSE Candidate(name,
            CHOOSE c \in 2..(Cardinality(used) + 3) :
                /\ Free(Candidate(name, c), used)
                /\ \A b \in 2..(c - 1) : ~Free(Candidate(name, b), used))

(***************************************************************************)
(* Attachment payloads.                                                    *)
(***************************************************************************)
\* The source files that exist on disk (os.path.isfile).
ExistingFiles == {<<"/exports/log.txt">>}

\* The strings base64.b64decode(value, validate=True) accepts.
ValidBase64 == {<<"SGVsbG8=">>}

\* attachment_bytes: the first content key that is present decides; a str
\* that is not valid base64 raises, and so does the absence of every key.
RECURSIVE ContentRaises(_, _)
ContentRaises(attachment, keys) ==
    IF keys = <<>> THEN TRUE
    ELSE IF Get(attachment, Head(keys)) = None
         THEN ContentRaises(attachment, Tail(keys))
         ELSE Get(attachment, Head(keys)) \notin ValidBase64

\* write_attachment copies the source file when file_path names one, and
\* writes the decoded payload otherwise.
PayloadRaises(attachment) ==
    IF Get(attachment, "file_path") \in ExistingFiles THEN FALSE
    ELSE ContentRaises(attachment, ATTACHMENT_CONTENT_KEYS)

\* isinstance(attachment, dict): an entry of another type is modelled as a
\* record that carries its Python type.
IsDict(entry) == "py_type" \notin DOMAIN entry

\* write_attachment raises before choosing a name.
NameRaises(attachment) ==
    RequireRaises(pick_first_key(attachment, ATTACHMENT_NAME_KEYS))

\* The name write_attachment settles on (safe_name after unique_filename).
SafeName(attachment, used) ==
    UniqueName(sanitize_filename(pick_first_key(attachment, ATTACHMENT_NAME_KEYS)), used)

(***************************************************************************)
(* SpecNames: extract_attachments, one loop iteration per step.            *)
(***************************************************************************)
NameEntries ==
    { [file_name |-> LogTxt, content_base64 |-> <<"SGVsbG8=">>],
      [filename |-> Log2Txt, data |-> <<"SGVsbG8=">>],
      [name |-> TicketMd, content_base64 |-> <<"SGVsbG8=">>],
      [file_name |-> EmptyStr, name |-> <<".", " ">> \o TicketMd, body |-> <<"SGVsbG8=">>],
      [file_name |-> <<"l", "o", "g", "#", "/", "2", ".", "t", "x", "t">>,
       file_path |-> <<"/exports/log.txt">>],
      [file_name |-> <<".", ".">>, content |-> <<"SGVsbG8=">>],
      [file_name |-> LogTxt, content_base64 |-> <<"not base64!">>],
      [content_base64 |-> <<"SGVsbG8=">>],
      [py_type |-> "str"] }

InitNames ==
    /\ naAttachments \in SeqsUpTo(NameEntries, MaxNames)
    /\ naIndex = 0
    /\ naUsed = {}
    /\ naResolved = <<>>
    /\ naFiles = {}
    /\ naStatus = "running"
    /\ CleanIdle /\ ExtractIdle /\ TimelineIdle /\ TicketIdle /\ MainIdle
    /\ FoldersIdle

\* The entry the loop handles next.
NaCurrent == naAttachments[naIndex + 1]

\* One iteration that completes: the file is written under its unique name
\* and the entry is appended to resolved.
WriteAttachmentOk ==
    /\ naStatus = "running"
    /\ naIndex < Len(naAttachments)
    /\ IsDict(NaCurrent)
    /\ ~NameRaises(NaCurrent)
    /\ ~PayloadRaises(NaCurrent)
    /\ LET name == SafeName(NaCurrent, naUsed)
       IN  /\ naUsed' = naUsed \cup {name}
           /\ naFiles' = naFiles \cup {name}
           /\ naResolved' = Append(naResolved, name)
    /\ naIndex' = naIndex + 1
    /\ UNCHANGED <<naAttachments, naStatus, namesRest>>

\* One iteration that raises: the entry is no dict, has no file name, or its
\* content cannot be decoded (its name is then already in used_names).
WriteAttachmentRaises ==
    /\ naStatus = "running"
    /\ naIndex < Len(naAttachments)
    /\ \/ ~IsDict(NaCurrent) /\ naUsed' = naUsed
       \/ IsDict(NaCurrent) /\ NameRaises(NaCurrent) /\ naUsed' = naUsed
       \/ /\ IsDict(NaCurrent)
          /\ ~NameRaises(NaCurrent)
          /\ PayloadRaises(NaCurrent)
          /\ naUsed' = naUsed \cup {SafeName(NaCurrent, naUsed)}
    /\ naStatus' = "raised"
    /\ UNCHANGED <<naAttachments, naIndex, naResolved, naFiles, namesRest>>

\* The loop is over: extract_attachments returns resolved.
ExtractAttachmentsReturn ==
    /\ naStatus = "running"
    /\ naIndex = Len(naAttachments)
    /\ naStatus' = "returned"
    /\ UNCHANGED <<naAttachments, naIndex, naUsed, naResolved, naFiles, namesRest>>

NextNames == WriteAttachmentOk \/ WriteAttachmentRaises \/ ExtractAttachmentsReturn

SpecNames == InitNames /\ [][NextNames]_vars

(***************************************************************************)
(* C9 -- the resolved file names of one extract_attachments call.          *)
(***************************************************************************)
\* The sanitised name of the i-th entry (the argument of unique_filename).
NaSanitized(i) ==
    sanitize_filename(pick_first_key(naAttachments[i], ATTACHMENT_NAME_KEYS))

\* The names resolved before the i-th entry was handled.
NaPrior(i) == {naResolved[j] : j \in 1..(i - 1)}

NaDistinct ==
    /\ \A i, j \in 1..Len(naResolved) : i # j => naResolved[i] # naResolved[j]
    /\ \A i \in 1..Len(naResolved) : naResolved[i] # TicketMd

\* The i-th resolved name is the candidate with the smallest counter, from 2
\* on, that is neither resolved already nor "ticket.md".
NaSmallestSuffix(i) ==
    \E c \in 2..(i + 2) :
        /\ naResolved[i] = Candidate(NaSanitized(i), c)
        /\ Free(Candidate(NaSanitized(i), c), NaPrior(i))
        /\ \A b \in 2..(c - 1) : ~Free(Candidate(NaSanitized(i), b), NaPrior(i))

\* C9 as claimed: the resolved names are pairwise distinct and none is
\* "ticket.md"; the first occurrence of a name keeps it (read with
\* "ticket.md" itself excepted) and a repeated name gets the smallest unused
\* suffix.
C9_FirstOccurrenceKeepsName ==
    /\ NaDistinct
    /\ \A i \in 1..Len(naResolved) :
          IF /\ NaSanitized(i) # TicketMd
             /\ \A j \in 1..(i - 1) : NaSanitized(j) # NaSanitized(i)
          THEN naResolved[i] = NaSanitized(i)
          ELSE NaSmallestSuffix(i)

\* C9 as amended: the resolved names are pairwise distinct, none is
\* "ticket.md", and each is written as a file of its own; a name keeps its
\* sanitised form exactly when that form is not "ticket.md" and is not among
\* the names resolved before it (which include the suffixed names handed
\* out earlier); otherwise it gets the smallest unused suffix.
C9_ResolvedNamesUnique ==
    /\ NaDistinct
    /\ naStatus \in {"running", "returned"} =>
          /\ naUsed = {naResolved[i] : i \in 1..Len(naResolved)}
          /\ naFiles = naUsed
          /\ Cardinality(naFiles) = Len(naResolved)
    /\ \A i \in 1..Len(naResolved) :
          IF Free(NaSanitized(i), NaPrior(i))
          THEN naResolved[i] = NaSanitized(i)
          ELSE NaSmallestSuffix(i)

\* Two "log.txt" became "log.txt" and "log_2.txt", and a later name that
\* sanitises to "ticket.md" was renamed as well.
C9_Witness ==
    /\ naStatus = "returned"
    /\ Len(naResolved) = 3
    /\ NaSanitized(1) = LogTxt /\ NaSanitized(2) = LogTxt
    /\ NaSanitized(3) = TicketMd
    /\ naResolved = <<LogTxt, Log2Txt,
                      <<"t", "i", "c", "k", "e", "t", "_", "2", ".", "m", "d">> >>

(***************************************************************************)
(* Timestamps.  A timestamp string is the sequence of its parts: a date, a *)
(* separator, a time of day and a zone suffix, or any other text.          *)
(***************************************************************************)
DateTokens == {"2024-01-01"}
TimeTokens == {"09:00:00", "10:00:00"}
OffsetTokens == {"+00:00"}

\* The hour a time of day stands for, and the hours an offset is ahead of UTC.
TimeHour(t) == IF t = "09:00:00" THEN 9 ELSE 10
OffsetHours(o) == 0

T0900 == <<"2024-01-01", " ", "09:00:00">>
T1000 == <<"2024-01-01", " ", "10:00:00">>
T1000T == <<"2024-01-01", "T", "10:00:00">>
T1000Z == <<"2024-01-01", "T", "10:00:00", "Z">>
T1000Utc == <<"2024-01-01", "T", "10:00:00", "+00:00">>
TBad == <<"yesterday">>

\* Python compares str values by code point.  The rank of each token in
\* that order (" " < "+" < "0" < "1" < "2" < "T" < "Z" < "y").
TokenRank(tok) ==
    CASE tok = " "          -> 1
      [] tok = "+00:00"     -> 2
      [] tok = "09:00:00"   -> 3
      [] tok = "10:00:00"   -> 4
      [] tok = "2024-01-01" -> 5
      [] tok = "T"          -> 6
      [] tok = "Z"          -> 7
      [] tok = "yesterday"  -> 8

\* a < b for two strings: at the first position where they differ the
\* smaller token decides, and a proper prefix is smaller.
RECURSIVE StrLess(_, _)
StrLess(a, b) ==
    IF b = <<>> THEN FALSE
    ELSE IF a = <<>> THEN TRUE
    ELSE IF Head(a) = Head(b) THEN StrLess(Tail(a), Tail(b))
    ELSE TokenRank(Head(a)) < TokenRank(Head(b))

\* datetime.strptime(value, "%Y-%m-%d %H:%M:%S") and the "T" format succeed.
MatchesFormat(value, sep) ==
    /\ Len(value) = 3
    /\ value[1] \in DateTokens /\ value[2] = sep /\ value[3] \in TimeTokens

\* value.replace("Z", "")
RemoveZ(value) == SelectSeq(value, LAMBDA tok : tok # "Z")

\* datetime.fromisoformat accepts a date, optionally followed by a separator
\* and a time, optionally followed by a UTC offset.
IsIsoFormat(value) ==
    /\ Len(value) \in {1, 3, 4}
    /\ value[1] \in DateTokens
    /\ Len(value) >= 3 => value[2] \in {" ", "T"} /\ value[3] \in TimeTokens
    /\ Len(value) = 4 => value[4] \in OffsetTokens

\* parse_timestamp raises ValueError exactly when this holds.
ParseRaises(value) ==
    /\ ~MatchesFormat(value, " ")
    /\ ~MatchesFormat(value, "T")
    /\ ~IsIsoFormat(RemoveZ(value))

\* parse_timestamp's datetime: whether it carries a UTC offset (is aware),
\* and its instant, in hours of the day (of UTC when aware).
parse_timestamp(value) ==
    LET iso == RemoveZ(value)
    IN  IF MatchesFormat(value, " ") \/ MatchesFormat(value, "T")
        THEN [aware |-> FALSE, instant |-> TimeHour(value[3])]
        ELSE IF Len(iso) = 1 THEN [aware |-> FALSE, instant |-> 0]
        ELSE IF Len(iso) = 3 THEN [aware |-> FALSE, instant |-> TimeHour(iso[3])]
        ELSE [aware |-> TRUE, instant |-> TimeHour(iso[3]) - OffsetHours(iso[4])]

resolve_attachment_timestamp(attachment) ==
    pick_first_key(attachment, ATTACHMENT_TIMESTAMP_KEYS)

resolve_message_timestamp(message) ==
    pick_first_key(message, MESSAGE_TIMESTAMP_KEYS)

\* Objects that differ in where (and whether) they carry a timestamp.
StampT1000 == [timestamp |-> T1000]
StampT1000T == [sys_created_on |-> T1000T]
StampT0900 == [timestamp |-> EmptyStr, created_on |-> T0900]
StampUtc == [created |-> T1000Utc]
StampZ == [created_at |-> T1000Z]
StampBad == [timestamp |-> TBad]
StampNone == [sys_updated_on |-> T0900]

(***************************************************************************)
(* extract_messages.                                                       *)
(***************************************************************************)
\* created_by.strip().lower() == "system"
IsSystemAuthor(created_by) == created_by \in {<<"System">>, <<" system ">>}

\* The tokens that contain " (staff work notes", case-insensitively.
StaffNoteTokens == {" (Staff Work Notes)", " (staff work notes)"}

\* name[:idx].rstrip(): the tokens before the first staff-notes marker.
RECURSIVE BeforeStaffNotes(_)
BeforeStaffNotes(name) ==
    IF name = <<>> \/ Head(name) \in StaffNoteTokens THEN <<>>
    ELSE <<Head(name)>> \o BeforeStaffNotes(Tail(name))

normalize_author(name, internal) ==
    IF internal /\ \E i \in 1..Len(name) : name[i] \in StaffNoteTokens
    THEN BeforeStaffNotes(name)
    ELSE name

\* comment.get("text") or ""
TextOrEmpty(entry) ==
    IF Truthy(Get(entry, "text")) THEN Get(entry, "text") ELSE EmptyStr

\* One entry of either list is skipped (a system author), raises (no
\* author), or becomes a message: the entry itself with its text cleaned,
\* its internal flag set and its author normalised.
EntrySkipped(entry) == IsSystemAuthor(Get(entry, "created_by"))

EntryRaises(entry) ==
    ~EntrySkipped(entry) /\ RequireRaises(Get(entry, "created_by"))

AsMessage(entry, internal) ==
    [text |-> clean_message_text(TextOrEmpty(entry), Get(entry, "created_by")),
     internal |-> internal,
     created_by |-> normalize_author(Get(entry, "created_by"), internal)] @@ entry

\* The two for loops over one list: the messages appended, in order.
RECURSIVE CollectMessages(_, _)
CollectMessages(entries, internal) ==
    IF entries = <<>> THEN <<>>
    ELSE IF EntrySkipped(Head(entries))
         THEN CollectMessages(Tail(entries), internal)
         ELSE <<AsMessage(Head(entries), internal)>>
                  \o CollectMessages(Tail(entries), internal)

\* A deduplication that compares the texts only (a mutant).
RECURSIVE DedupIgnoringInternal(_, _, _)
DedupIgnoringInternal(messages, last_text, last_internal) ==
    IF messages = <<>> THEN <<>>
    ELSE LET message == Head(messages)
         IN  IF message.text = last_text
             THEN DedupIgnoringInternal(Tail(messages), last_text, last_internal)
             ELSE <<message>> \o DedupIgnoringInternal(Tail(messages),
                                      message.text, message.internal)

\* The deduplication loop: a message is skipped when its text and its
\* internal flag equal last_text and last_internal, those of the message
\* appended last (None before the first).
RECURSIVE Dedup(_, _, _)
Dedup(messages, last_text, last_internal) ==
    IF messages = <<>> THEN <<>>
    ELSE LET message == Head(messages)
         IN  IF message.text = last_text /\ message.internal = last_internal
             THEN Dedup(Tail(messages), last_text, last_internal)
             ELSE <<message>> \o Dedup(Tail(messages), message.text, message.internal)

\* extract_messages raises: some entry that is not skipped has no author.
ExtractRaises(comments, notes) ==
    \/ \E i \in 1..Len(comments) : EntryRaises(comments[i])
    \/ \E i \in 1..Len(notes) : EntryRaises(notes[i])

\* messages, the list before deduplication.
AllMessages(comments, notes) ==
    CollectMessages(comments, FALSE) \o CollectMessages(notes, TRUE)

extract_messages(comments, notes) == Dedup(AllMessages(comments, notes), None, None)

(***************************************************************************)
(* SpecExtract: extract_messages on the discussions of one record.         *)
(***************************************************************************)
BodyGreeted == <<"Hi John,", NL, "The disk is full.">>
BodyPlain == <<"The disk is full.">>
BodySignoff == <<"Best,">>

CommentEntries ==
    { [created_by |-> AuthorJohn, text |-> BodyGreeted] @@ StampT1000,
      [created_by |-> AuthorJohn, text |-> BodyPlain] @@ StampT1000T,
      [created_by |-> AuthorJohn, text |-> BodySignoff] @@ StampT0900,
      [created_by |-> <<" system ">>, text |-> BodyPlain] @@ StampBad,
      [text |-> BodyPlain] @@ StampT1000 }

NoteEntries ==
    { [created_by |-> <<"John Smith", " (Staff Work Notes)">>, text |-> BodyPlain]
          @@ StampT1000,
      [created_by |-> AuthorJohn] @@ StampT0900,
      [created_by |-> <<" (staff work notes)">>, text |-> BodyGreeted] @@ StampT1000,
      [created_by |-> <<"System">>, text |-> BodyPlain] @@ StampNone }

InitExtract ==
    /\ exComments \in SeqsUpTo(CommentEntries, MaxComments)
    /\ exNotes \in SeqsUpTo(NoteEntries, MaxNotes)
    /\ exMessages = <<>>
    /\ exDeduped = <<>>
    /\ exStatus = "running"
    /\ CleanIdle /\ NamesIdle /\ TimelineIdle /\ TicketIdle /\ MainIdle
    /\ FoldersIdle

ExtractMessagesReturns ==
    /\ exStatus = "running"
    /\ ~ExtractRaises(exComments, exNotes)
    /\ exMessages' = AllMessages(exComments, exNotes)
    /\ exDeduped' = extract_messages(exComments, exNotes)
    /\ exStatus' = "returned"
    /\ UNCHANGED <<exComments, exNotes, extractRest>>

ExtractMessagesRaises ==
    /\ exStatus = "running"
    /\ ExtractRaises(exComments, exNotes)
    /\ exStatus' = "raised"
    /\ UNCHANGED <<exComments, exNotes, exMessages, exDeduped, extractRest>>

NextExtract == ExtractMessagesReturns \/ ExtractMessagesRaises

SpecExtract == InitExtract /\ [][NextExtract]_vars

(***************************************************************************)
(* C4 -- deduplication in extract_messages.                                *)
(***************************************************************************)
\* Two messages share both their cleaned text and their internal flag.
SameTextAndFlag(a, b) == a.text = b.text /\ a.internal = b.internal

\* The elements of sequence s at the indices in K, in their order.
RECURSIVE Restrict(_, _, _)
Restrict(s, K, i) ==
    IF i > Len(s) THEN <<>>
    ELSE IF i \in K THEN <<s[i]>> \o Restrict(s, K, i + 1)
    ELSE Restrict(s, K, i + 1)

SetMax(S) == CHOOSE x \in S : \A y \in S : y <= x

\* C4: the returned list consists of exactly those extracted messages that
\* differ, in cleaned text or in internal flag, from the most recently kept
\* message; hence no two consecutive returned messages share both, a run of
\* identical adjacent messages is represented by its first element only, and
\* nothing else is removed.
C4_DedupAdjacentOnly ==
    exStatus = "returned" =>
        \E K \in SUBSET (1..Len(exMessages)) :
            /\ exDeduped = Restrict(exMessages, K, 1)
            /\ \A i \in 1..Len(exMessages) :
                  LET kept_before == {j \in K : j < i}
                  IN  i \in K <=>
                          \/ kept_before = {}
                          \/ ~SameTextAndFlag(exMessages[i],
                                              exMessages[SetMax(kept_before)])
            /\ \A i \in 1..Len(exMessages) :
                  i \in K <=>
                      (i = 1 \/ ~SameTextAndFlag(exMessages[i], exMessages[i - 1]))
            /\ \A j \in 1..(Len(exDeduped) - 1) :
                  ~SameTextAndFlag(exDeduped[j], exDeduped[j + 1])

\* A call that dropped an adjacent duplicate and kept a message that repeats
\* an earlier, non-adjacent one.
C4_Witness ==
    /\ exStatus = "returned"
    /\ Len(exDeduped) < Len(exMessages)
    /\ \E a, b \in 1..Len(exDeduped) :
          b > a + 1 /\ SameTextAndFlag(exDeduped[a], exDeduped[b])

(***************************************************************************)
(* build_timeline.                                                         *)
(***************************************************************************)
\* Building the item of a message raises: no timestamp under any alias, a
\* timestamp that does not parse, or no author.
MessageItemRaises(message) ==
    \/ RequireRaises(resolve_message_timestamp(message))
    \/ ParseRaises(resolve_message_timestamp(message))
    \/ RequireRaises(Get(message, "created_by"))

\* An attachment item that is built whatever its timestamp (a mutant).
AttachmentItemNeverRaises(attachment) == FALSE

AttachmentItemRaises(attachment) ==
    \/ RequireRaises(resolve_attachment_timestamp(attachment))
    \/ ParseRaises(resolve_attachment_timestamp(attachment))

MessageItem(message, index) ==
    [type |-> "message",
     timestamp |-> resolve_message_timestamp(message),
     timestamp_dt |-> parse_timestamp(resolve_message_timestamp(message)),
     author |-> Get(message, "created_by"),
     internal |-> IF "internal" \in DOMAIN message THEN message.internal ELSE FALSE,
     text |-> TextOrEmpty(message),
     order |-> index]

AttachmentItem(attachment, index) ==
    [type |-> "attachment",
     timestamp |-> resolve_attachment_timestamp(attachment),
     timestamp_dt |-> parse_timestamp(resolve_attachment_timestamp(attachment)),
     file |-> attachment.resolved_name,
     order |-> index]

\* timeline before the sort: the messages, then the attachments, numbered
\* from 0 in that order.
TimelineItems(messages, attachments) ==
    [i \in 1..(Len(messages) + Len(attachments)) |->
        IF i <= Len(messages)
        THEN MessageItem(messages[i], i - 1)
        ELSE AttachmentItem(attachments[i - Len(messages)], i - 1)]

ItemsRaise(messages, attachments) ==
    \/ \E i \in 1..Len(messages) : MessageItemRaises(messages[i])
    \/ \E i \in 1..Len(attachments) : AttachmentItemRaises(attachments[i])

\* A kind_priority that puts attachments first (a mutant).
KindPriorityAttachmentFirst(item) == IF item.type = "message" THEN 1 ELSE 0

KindPriority(item) == IF item.type = "message" THEN 0 ELSE 1

\* A sort key that leaves the raw timestamp out (a mutant).
SortKeyWithoutRaw(item) ==
    <<item.timestamp_dt, EmptyStr, KindPriority(item), item.order>>

sort_key(item) ==
    <<item.timestamp_dt,
      IF Truthy(item.timestamp) THEN item.timestamp ELSE EmptyStr,
      KindPriority(item),
      item.order>>

\* datetime equality and order.  A naive and an aware datetime are unequal,
\* and ordering them raises TypeError.
DtEqual(a, b) == a.aware = b.aware /\ a.instant = b.instant
DtLess(a, b) == a.instant < b.instant

\* Tuple comparison k1 < k2: the first unequal component decides.
KeyLess(k1, k2) ==
    IF ~DtEqual(k1[1], k2[1]) THEN DtLess(k1[1], k2[1])
    ELSE IF k1[2] # k2[2] THEN StrLess(k1[2], k2[2])
    ELSE IF k1[3] # k2[3] THEN k1[3] < k2[3]
    ELSE k1[4] < k2[4]

\* timeline.sort raises TypeError: the list mixes naive and aware datetimes
\* (any sort of two or more items compares some naive item with some aware
\* one).
SortRaises(items) ==
    \E i, j \in 1..Len(items) :
        items[i].timestamp_dt.aware # items[j].timestamp_dt.aware

\* list.sort(key=sort_key): a stable sort, here by insertion.
InsertByKey(sorted, item) ==
    LET after == {i \in 1..Len(sorted) : KeyLess(sort_key(item), sort_key(sorted[i]))}
        at == IF after = {} THEN Len(sorted) + 1
              ELSE CHOOSE i \in after : \A j \in after : i <= j
    IN  SubSeq(sorted, 1, at - 1) \o <<item>> \o SubSeq(sorted, at, Len(sorted))

RECURSIVE SortFrom(_, _, _)
SortFrom(items, i, sorted) ==
    IF i > Len(items) THEN sorted
    ELSE SortFrom(items, i + 1, InsertByKey(sorted, items[i]))

SortedItems(items) == SortFrom(items, 1, <<>>)

AttachmentGroup(files) == [type |-> "attachments", files |-> files]

Flush(buffer_files) ==
    IF buffer_files # <<>> THEN <<AttachmentGroup(buffer_files)>> ELSE <<>>

\* A collapsing loop that flushes after every attachment (a mutant).
RECURSIVE MergeEachAttachmentAlone(_, _, _)
MergeEachAttachmentAlone(timeline, i, buffer_files) ==
    IF i > Len(timeline) THEN <<>>
    ELSE IF timeline[i].type = "attachment"
         THEN <<AttachmentGroup(<<timeline[i].file>>)>>
                  \o MergeEachAttachmentAlone(timeline, i + 1, buffer_files)
         ELSE <<timeline[i]>> \o MergeEachAttachmentAlone(timeline, i + 1, buffer_files)

\* A collapsing loop without the flush after the loop (a mutant): the
\* attachments that follow the last message are dropped.
RECURSIVE MergeWithoutFinalFlush(_, _, _)
MergeWithoutFinalFlush(timeline, i, buffer_files) ==
    IF i > Len(timeline) THEN <<>>
    ELSE IF timeline[i].type = "attachment"
         THEN MergeWithoutFinalFlush(timeline, i + 1,
                                     Append(buffer_files, timeline[i].file))
         ELSE Flush(buffer_files) \o <<timeline[i]>>
                  \o MergeWithoutFinalFlush(timeline, i + 1, <<>>)

\* The collapsing loop: attachments accumulate in buffer_files, which is
\* flushed as one group before the next message and at the end.
RECURSIVE Merge(_, _, _)
Merge(timeline, i, buffer_files) ==
    IF i > Len(timeline) THEN Flush(buffer_files)
    ELSE IF timeline[i].type = "attachment"
         THEN Merge(timeline, i + 1, Append(buffer_files, timeline[i].file))
         ELSE Flush(buffer_files) \o <<timeline[i]>> \o Merge(timeline, i + 1, <<>>)

BuildTimelineRaises(messages, attachments) ==
    \/ ItemsRaise(messages, attachments)
    \/ SortRaises(TimelineItems(messages, attachments))

build_timeline(messages, attachments) ==
    Merge(SortedItems(TimelineItems(messages, attachments)), 1, <<>>)

(***************************************************************************)
(* SpecTimeline: build_timeline on the messages extract_messages returned  *)
(* and the attachments extract_attachments resolved.                       *)
(***************************************************************************)
\* The name extract_attachments resolves for the i-th of several
\* attachments that are all called "log.txt".
NthLogName(i) == IF i = 1 THEN LogTxt ELSE Candidate(LogTxt, i)

TlMessageEntries ==
    { [created_by |-> <<"John Smith">>, internal |-> FALSE, text |-> BodyPlain] @@ st :
        st \in {StampT1000T, StampZ, StampT0900, StampUtc, StampBad, StampNone} }

TlAttachmentStamps == {StampT1000, StampT1000T, StampT0900, StampBad}

InitTimeline ==
    /\ tlMessages \in SeqsUpTo(TlMessageEntries, MaxTlMessages)
    /\ \E stamps \in SeqsUpTo(TlAttachmentStamps, MaxTlAttachments) :
          tlAttachments =
              [i \in 1..Len(stamps) |-> [resolved_name |-> NthLogName(i)] @@ stamps[i]]
    /\ tlSorted = <<>>
    /\ tlMerged = <<>>
    /\ tlStatus = "running"
    /\ CleanIdle /\ NamesIdle /\ ExtractIdle /\ TicketIdle /\ MainIdle
    /\ FoldersIdle

BuildTimelineReturn ==
    /\ tlStatus = "running"
    /\ ~BuildTimelineRaises(tlMessages, tlAttachments)
    /\ tlSorted' = SortedItems(TimelineItems(tlMessages, tlAttachments))
    /\ tlMerged' = build_timeline(tlMessages, tlAttachments)
    /\ tlStatus' = "returned"
    /\ UNCHANGED <<tlMessages, tlAttachments, timelineRest>>

BuildTimelineRaise ==
    /\ tlStatus = "running"
    /\ BuildTimelineRaises(tlMessages, tlAttachments)
    /\ tlStatus' = "raised"
    /\ UNCHANGED <<tlMessages, tlAttachments, tlSorted, tlMerged, timelineRest>>

NextTimeline == BuildTimelineReturn \/ BuildTimelineRaise

SpecTimeline == InitTimeline /\ [][NextTimeline]_vars

(***************************************************************************)
(* C2, C3, C5 -- the order and the grouping of the timeline.               *)
(***************************************************************************)
\* The components of the documented order, read off an item of the sorted
\* list: the parsed instant, the raw timestamp, the kind (message 0,
\* attachment 1) and the position in the input.
InstantOf(item) == parse_timestamp(item.timestamp).instant
KindOf(item) == IF item.type = "message" THEN 0 ELSE 1

\* x comes strictly before y in the lexicographic order
\* (instant, raw timestamp, kind, sequence index).
DocumentedBefore(x, y) ==
    \/ InstantOf(x) < InstantOf(y)
    \/ /\ InstantOf(x) = InstantOf(y)
       /\ \/ StrLess(x.timestamp, y.timestamp)
          \/ /\ x.timestamp = y.timestamp
             /\ \/ KindOf(x) < KindOf(y)
                \/ KindOf(x) = KindOf(y) /\ x.order < y.order

\* C2: when the sort returns, the sorted list holds every message and every
\* attachment exactly once, and any item placed before another precedes it
\* in the order (parsed instant, raw timestamp compared lexically, kind with
\* message before attachment, original sequence index); the order is strict,
\* so the inputs determine the list.
C2_SortedByDocumentedKey ==
    tlStatus = "returned" =>
        /\ Len(tlSorted) = Len(tlMessages) + Len(tlAttachments)
        /\ \A k \in 0..(Len(tlSorted) - 1) :
              \E i \in 1..Len(tlSorted) :
                  /\ tlSorted[i].order = k
                  /\ tlSorted[i].type =
                        (IF k < Len(tlMessages) THEN "message" ELSE "attachment")
                  /\ tlSorted[i].timestamp =
                        (IF k < Len(tlMessages)
                         THEN resolve_message_timestamp(tlMessages[k + 1])
                         ELSE resolve_attachment_timestamp(
                                  tlAttachments[k + 1 - Len(tlMessages)]))
        /\ \A i, j \in 1..Len(tlSorted) :
              i < j => DocumentedBefore(tlSorted[i], tlSorted[j])

\* Two messages and an attachment that share an instant but not the raw
\* string, sorted by raw string first and by kind only within equal strings.
C2_Witness ==
    /\ tlStatus = "returned"
    /\ Len(tlSorted) >= 3
    /\ \E i \in 1..(Len(tlSorted) - 2) :
          /\ tlSorted[i].type = "attachment" /\ tlSorted[i].timestamp = T1000
          /\ tlSorted[i + 1].type = "message" /\ tlSorted[i + 1].timestamp = T1000T
          /\ tlSorted[i + 1].order > 0
          /\ tlSorted[i + 2].type = "attachment" /\ tlSorted[i + 2].timestamp = T1000T

\* The position, in the returned timeline, of the message numbered k and of
\* the group that lists a file.
MessagePosition(k) ==
    CHOOSE p \in 1..Len(tlMerged) :
        tlMerged[p].type = "message" /\ tlMerged[p].order = k

GroupPosition(file) ==
    CHOOSE p \in 1..Len(tlMerged) :
        /\ tlMerged[p].type = "attachments"
        /\ \E f \in 1..Len(tlMerged[p].files) : tlMerged[p].files[f] = file

\* The instant of the i-th message and of the i-th attachment passed in.
MessageInstant(i) == parse_timestamp(resolve_message_timestamp(tlMessages[i])).instant
AttachmentInstant(i) ==
    parse_timestamp(resolve_attachment_timestamp(tlAttachments[i])).instant

\* C3 as claimed: in the returned timeline a message precedes the group of
\* every attachment that has the same parsed instant, whatever their raw
\* timestamp strings.
C3_MessageFirstOnEqualInstant ==
    tlStatus = "returned" =>
        \A m \in 1..Len(tlMessages), a \in 1..Len(tlAttachments) :
            MessageInstant(m) = AttachmentInstant(a) =>
                MessagePosition(m - 1) < GroupPosition(tlAttachments[a].resolved_name)

\* C3 as amended: a message precedes the group of every attachment that has
\* the same parsed instant and the same raw timestamp string; when the
\* instants tie and the strings differ, the lexically smaller string is
\* first, whichever kind carries it.
C3_MessageFirstOnEqualInstantAndRaw ==
    tlStatus = "returned" =>
        \A m \in 1..Len(tlMessages), a \in 1..Len(tlAttachments) :
            LET mraw == resolve_message_timestamp(tlMessages[m])
                araw == resolve_attachment_timestamp(tlAttachments[a])
                mpos == MessagePosition(m - 1)
                gpos == GroupPosition(tlAttachments[a].resolved_name)
            IN  MessageInstant(m) = AttachmentInstant(a) =>
                    /\ mraw = araw => mpos < gpos
                    /\ StrLess(mraw, araw) => mpos < gpos
                    /\ StrLess(araw, mraw) => gpos < mpos

\* A message and an attachment with the same raw timestamp, returned with
\* the message immediately ahead of the attachment's group.
C3_Witness ==
    /\ tlStatus = "returned"
    /\ \E m \in 1..Len(tlMessages), a \in 1..Len(tlAttachments) :
          /\ resolve_message_timestamp(tlMessages[m]) = T1000T
          /\ resolve_attachment_timestamp(tlAttachments[a]) = T1000T
          /\ MessagePosition(m - 1) + 1 = GroupPosition(tlAttachments[a].resolved_name)

\* C5: the returned timeline never holds two adjacent attachment groups, no
\* group is empty, and the groups are exactly the maximal runs of
\* attachments of the sorted list, each listing the files of its run in
\* order.
IsRunStart(i) ==
    /\ tlSorted[i].type = "attachment"
    /\ i = 1 \/ tlSorted[i - 1].type = "message"

C5_NoAdjacentAttachmentGroups ==
    tlStatus = "returned" =>
        /\ \A p \in 1..(Len(tlMerged) - 1) :
              ~(tlMerged[p].type = "attachments" /\ tlMerged[p + 1].type = "attachments")
        /\ \A p \in 1..Len(tlMerged) :
              tlMerged[p].type = "attachments" => tlMerged[p].files # <<>>
        /\ Cardinality({p \in 1..Len(tlMerged) : tlMerged[p].type = "attachments"})
              = Cardinality({i \in 1..Len(tlSorted) : IsRunStart(i)})
        /\ \A i \in 1..Len(tlSorted) :
              IsRunStart(i) =>
                  LET g == tlMerged[GroupPosition(tlSorted[i].file)]
                  IN  /\ g.files[1] = tlSorted[i].file
                      /\ \A f \in 1..Len(g.files) :
                            /\ i + f - 1 <= Len(tlSorted)
                            /\ tlSorted[i + f - 1].type = "attachment"
                            /\ tlSorted[i + f - 1].file = g.files[f]
                      /\ i + Len(g.files) <= Len(tlSorted) =>
                            tlSorted[i + Len(g.files)].type = "message"

\* A timeline with a group of two files, a message, and a second group.
C5_Witness ==
    /\ tlStatus = "returned"
    /\ \E p \in 1..(Len(tlMerged) - 2) :
          /\ tlMerged[p].type = "attachments" /\ Len(tlMerged[p].files) = 2
          /\ tlMerged[p + 1].type = "message"
          /\ tlMerged[p + 2].type = "attachments"

(***************************************************************************)
(* process_ticket_file: the helpers on the incident fields.                *)
(***************************************************************************)
\* One token of a short description after str.lower().
LowerToken(tok) ==
    CASE tok = "Storage Quota Increase Request:" -> "storage quota increase request:"
      [] tok = "STORAGE QUOTA INCREASE REQUEST:" -> "storage quota increase request:"
      [] tok = "Ticket from IRIS: New PI Account Request"
             -> "ticket from iris: new pi account request"
      [] tok = "Re: " -> "re: "
      [] tok = "Login fails" -> "login fails"
      [] OTHER -> tok

\* str.lower()
Lower(s) == [i \in 1..Len(s) |-> LowerToken(s[i])]

\* str.strip(): the string without its leading and trailing blanks.
RECURSIVE Strip(_)
Strip(s) ==
    IF s # <<>> /\ Head(s) = " " THEN Strip(Tail(s))
    ELSE IF s # <<>> /\ s[Len(s)] = " " THEN Strip(SubSeq(s, 1, Len(s) - 1))
    ELSE s

is_iris_pi_request(short_description) ==
    /\ Truthy(short_description)
    /\ Lower(Strip(short_description)) = <<"ticket from iris: new pi account request">>

is_storage_quota_increase(short_description) ==
    /\ Truthy(short_description)
    /\ Lower(Strip(short_description)) # <<>>
    /\ Head(Lower(Strip(short_description))) = "storage quota increase request:"

\* sep in value
Contains(value, sep) == \E i \in 1..Len(value) : value[i] = sep

\* value.split(sep, 1)[0]: what precedes the first sep.
RECURSIVE PrefixBefore(_, _)
PrefixBefore(value, sep) ==
    IF value = <<>> \/ Head(value) = sep THEN <<>>
    ELSE <<Head(value)>> \o PrefixBefore(Tail(value), sep)

date_only(value) ==
    IF Contains(value, " ") THEN PrefixBefore(value, " ")
    ELSE IF Contains(value, "T") THEN PrefixBefore(value, "T")
    ELSE value

\* value.split(sep): the list of the pieces between the separators.
RECURSIVE SplitOn(_, _)
SplitOn(value, sep) ==
    IF ~Contains(value, sep) THEN <<value>>
    ELSE <<PrefixBefore(value, sep)>>
             \o SplitOn(SubSeq(value, Len(PrefixBefore(value, sep)) + 2, Len(value)), sep)

\* Python's `a or b` on the values met here.
OrElse(a, b) == IF Truthy(a) THEN a ELSE b

ShortDescription(data) == Get(data.incident_fields, "short_description")

IncidentNumber(data) ==
    OrElse(Get(data.metadata, "incident_number"), Get(data.incident_fields, "number"))

Status(data) == Get(data.incident_fields, "state")

OpenedRaw(data) ==
    OrElse(Get(data.incident_fields, "opened_at"),
           Get(data.incident_fields, "sys_created_on"))

ClosedRaw(data) ==
    OrElse(Get(data.incident_fields, "closed_at"),
           Get(data.incident_fields, "resolved_at"))

Opened(data) == date_only(OpenedRaw(data))

Closed(data) == IF Truthy(ClosedRaw(data)) THEN date_only(ClosedRaw(data)) ELSE None

\* One of the require_value calls raises, or the opened date has no "-".
FieldRaises(data) ==
    \/ RequireRaises(IncidentNumber(data))
    \/ RequireRaises(Status(data))
    \/ RequireRaises(OpenedRaw(data))
    \/ Len(SplitOn(Opened(data), "-")) < 2

\* os.path.join(OUTPUT_ROOT, year, month, incident_number), below OUTPUT_ROOT.
TicketDir(data) ==
    <<SplitOn(Opened(data), "-")[1], SplitOn(Opened(data), "-")[2], IncidentNumber(data)>>

\* data.get("attachments") or []: the value is kept with its Python type;
\* only a list has items.
AttachmentsRaw(data) ==
    IF data.attachments.py_type = "list" THEN data.attachments.items ELSE <<>>

\* not isinstance(attachments_raw, list), for a value that is truthy.
AttachmentsNotList(data) == data.attachments.py_type \notin {"list", "NoneType"}

Comments(data) == data.discussions.customer_facing_comments
Notes(data) == data.discussions.internal_work_notes

\* The first return: the short description is on the skip list.
SkipsOnDescription(data) ==
    \/ is_iris_pi_request(ShortDescription(data))
    \/ is_storage_quota_increase(ShortDescription(data))

\* A second return that skips every ticket of one message (a mutant).
SkipsOnSingleMessage(messages, attachments_raw) ==
    \/ Len(messages) = 0
    \/ Len(messages) = 1

\* A second return that skips tickets of up to two messages (a mutant).
SkipsUpToTwoMessages(messages, attachments_raw) ==
    \/ Len(messages) = 0
    \/ Len(messages) <= 2 /\ attachments_raw = <<>>

\* The returns after extract_messages: no message, or one message and no
\* attachment.
SkipsOnMessages(messages, attachments_raw) ==
    \/ Len(messages) = 0
    \/ Len(messages) = 1 /\ attachments_raw = <<>>

(***************************************************************************)
(* build_ticket_markdown.  The document is the list of its lines, each a   *)
(* string; the final "\n" is implicit.                                     *)
(***************************************************************************)
\* text.rstrip(): the text without its trailing newlines and blank lines.
RECURSIVE RStripText(_)
RStripText(text) ==
    IF text # <<>> /\ (text[Len(text)] = NL \/ IsBlank(text[Len(text)]))
    THEN RStripText(SubSeq(text, 1, Len(text) - 1))
    ELSE text

\* The grave accent that opens and closes inline code.
BackQuote == "<grave accent>"

MessageLines(entry) ==
    << <<"## ">> \o entry.author
          \o (IF entry.internal THEN <<" (staff work notes)">> ELSE <<>>),
       <<>>,
       RStripText(entry.text),
       <<>> >>

GroupLines(entry) ==
    << <<"## Attachments">>, <<>> >>
        \o [i \in 1..Len(entry.files) |->
               <<"- ", BackQuote>> \o entry.files[i] \o <<BackQuote>>]
        \o << <<>> >>

RECURSIVE TimelineLines(_)
TimelineLines(timeline) ==
    IF timeline = <<>> THEN <<>>
    ELSE (IF Head(timeline).type = "message"
          THEN MessageLines(Head(timeline))
          ELSE GroupLines(Head(timeline)))
             \o TimelineLines(Tail(timeline))

\* "\n".join(lines).rstrip(): the lines without the empty ones at the end.
RECURSIVE RStripLines(_)
RStripLines(lines) ==
    IF lines # <<>> /\ lines[Len(lines)] = <<>>
    THEN RStripLines(SubSeq(lines, 1, Len(lines) - 1))
    ELSE lines

build_ticket_markdown(incident_number, short_description, status, opened, closed, timeline) ==
    LET title == IF Truthy(short_description)
                 THEN incident_number \o <<" - ">> \o short_description
                 ELSE incident_number
        lines == << <<"# ">> \o title, <<>> >>
                    \o (IF Truthy(status) THEN << <<"- Status: ">> \o status >> ELSE <<>>)
                    \o (IF Truthy(opened) THEN << <<"- Opened: ">> \o opened >> ELSE <<>>)
                    \o (IF Truthy(closed) THEN << <<"- Closed: ">> \o closed >> ELSE <<>>)
                    \o << <<>> >>
                    \o TimelineLines(timeline)
    IN  RStripLines(lines)

(***************************************************************************)
(* SpecTicket: process_ticket_file on one record.  The call is cut at its  *)
(* writes: a first step up to os.makedirs, one step per attachment, and a  *)
(* last step for the timeline and ticket.md.                               *)
(***************************************************************************)
OpenedJan == <<"2024", "-", "01", "-", "02", " ", "10:00:00">>
ClosedJan == <<"2024", "-", "01", "-", "03", "T", "09:00:00">>
OpenedFeb == <<"2024", "-", "02", "-", "05">>
OpenedNoDash == <<"20240102", "T", "10:00:00">>

TkHeaders ==
    { [metadata |-> [incident_number |-> <<"INC0000001">>],
       incident_fields |-> [short_description |-> <<"Login fails">>,
                            number |-> <<"INC0000009">>,
                            state |-> <<"Closed">>,
                            opened_at |-> OpenedJan,
                            closed_at |-> ClosedJan]],
      [metadata |-> <<>>,
       incident_fields |-> [number |-> <<"INC0000002">>,
                            sys_created_on |-> OpenedJan]],
      [metadata |-> [incident_number |-> <<"INC0000003">>],
       incident_fields |-> [short_description |-> <<"Login fails">>,
                            state |-> <<"Closed">>,
                            opened_at |-> OpenedNoDash]],
      [metadata |-> [incident_number |-> <<"INC0000004">>],
       incident_fields |-> [short_description
                                |-> <<"Storage Quota Increase Request:", " test">>,
                            state |-> <<"Closed">>,
                            opened_at |-> OpenedJan]],
      [metadata |-> [incident_number |-> <<"INC0000005">>],
       incident_fields |-> [short_description
                                |-> <<"Ticket from IRIS: New PI Account Request", " ">>,
                            state |-> <<"New">>,
                            opened_at |-> OpenedJan]],
      [metadata |-> <<>>,
       incident_fields |-> [short_description
                                |-> <<"Re: ", "STORAGE QUOTA INCREASE REQUEST:", " test">>,
                            number |-> <<"INC0000006">>,
                            state |-> <<"New">>,
                            opened_at |-> EmptyStr,
                            sys_created_on |-> OpenedFeb,
                            resolved_at |-> ClosedJan]] }

TkCommentEntries ==
    { [created_by |-> AuthorJohn, text |-> BodyPlain] @@ StampT1000T,
      [created_by |-> AuthorJohn, text |-> BodyGreeted] @@ StampUtc,
      [created_by |-> AuthorJohn, text |-> BodySignoff] @@ StampT0900,
      [created_by |-> <<" system ">>, text |-> BodyPlain] @@ StampBad,
      [created_by |-> AuthorJohn, text |-> BodyPlain] @@ StampBad,
      [text |-> BodyPlain] @@ StampT1000 }

TkNoteEntries ==
    { [created_by |-> <<"John Smith", " (Staff Work Notes)">>, text |-> BodyPlain]
          @@ StampT1000,
      [created_by |-> AuthorJohn, text |-> BodyGreeted] @@ StampNone }

TkAttachmentEntries ==
    { [file_name |-> LogTxt, content_base64 |-> <<"SGVsbG8=">>] @@ StampT1000T,
      [file_name |-> LogTxt, content |-> <<"SGVsbG8=">>] @@ StampBad,
      [file_name |-> LogTxt] @@ StampT1000 }

\* The values of data["attachments"]: absent, a dict, or a list.
TkAttachmentValues(n) ==
    {[py_type |-> "list", items |-> a] : a \in SeqsUpTo(TkAttachmentEntries, n)}
        \cup (IF n >= 0 THEN {[py_type |-> "NoneType"], [py_type |-> "dict"]} ELSE {})

\* The record of a header, its discussions and its attachments value.
TkRecord(h, c, n, a) ==
    [metadata |-> h.metadata,
     incident_fields |-> h.incident_fields,
     discussions |-> [customer_facing_comments |-> c, internal_work_notes |-> n],
     attachments |-> a]

\* The records of at most MaxTkEntries comments, notes and attachments.
InitTicket ==
    /\ \E c \in SeqsUpTo(TkCommentEntries, MaxTkEntries) :
       \E n \in SeqsUpTo(TkNoteEntries, MaxTkEntries - Len(c)) :
       \E a \in TkAttachmentValues(MaxTkEntries - Len(c) - Len(n)) :
       \E h \in TkHeaders :
          tkData = TkRecord(h, c, n, a)
    /\ tkPc = "start"
    /\ tkMessages = <<>>
    /\ tkIndex = 0
    /\ tkUsed = {}
    /\ tkResolved = <<>>
    /\ tkDir = <<>>
    /\ tkWritten = <<>>
    /\ tkMarkdown = <<>>
    /\ CleanIdle /\ NamesIdle /\ ExtractIdle /\ TimelineIdle /\ MainIdle
    /\ FoldersIdle

\* The return of lines 585-588: nothing has been read but the description.
TicketSkippedOnDescription ==
    /\ tkPc = "start"
    /\ SkipsOnDescription(tkData)
    /\ tkPc' = "returned"
    /\ UNCHANGED <<tkData, tkMessages, tkIndex, tkUsed, tkResolved, tkDir, tkWritten,
                   tkMarkdown, ticketRest>>

\* The raise of line 592.
TicketAttachmentsNotList ==
    /\ tkPc = "start"
    /\ ~SkipsOnDescription(tkData)
    /\ AttachmentsNotList(tkData)
    /\ tkPc' = "raised"
    /\ UNCHANGED <<tkData, tkMessages, tkIndex, tkUsed, tkResolved, tkDir, tkWritten,
                   tkMarkdown, ticketRest>>

\* extract_messages raises: a message without an author.
TicketExtractRaises ==
    /\ tkPc = "start"
    /\ ~SkipsOnDescription(tkData)
    /\ ~AttachmentsNotList(tkData)
    /\ ExtractRaises(Comments(tkData), Notes(tkData))
    /\ tkPc' = "raised"
    /\ UNCHANGED <<tkData, tkMessages, tkIndex, tkUsed, tkResolved, tkDir, tkWritten,
                   tkMarkdown, ticketRest>>

\* The returns of lines 595-598.
TicketSkippedOnMessages ==
    /\ tkPc = "start"
    /\ ~SkipsOnDescription(tkData)
    /\ ~AttachmentsNotList(tkData)
    /\ ~ExtractRaises(Comments(tkData), Notes(tkData))
    /\ SkipsOnMessages(extract_messages(Comments(tkData), Notes(tkData)),
                       AttachmentsRaw(tkData))
    /\ tkMessages' = extract_messages(Comments(tkData), Notes(tkData))
    /\ tkPc' = "returned"
    /\ UNCHANGED <<tkData, tkIndex, tkUsed, tkResolved, tkDir, tkWritten, tkMarkdown,
                   ticketRest>>

\* A required incident field is missing, or the opened date has no "-".
TicketFieldRaises ==
    /\ tkPc = "start"
    /\ ~SkipsOnDescription(tkData)
    /\ ~AttachmentsNotList(tkData)
    /\ ~ExtractRaises(Comments(tkData), Notes(tkData))
    /\ ~SkipsOnMessages(extract_messages(Comments(tkData), Notes(tkData)),
                        AttachmentsRaw(tkData))
    /\ FieldRaises(tkData)
    /\ tkMessages' = extract_messages(Comments(tkData), Notes(tkData))
    /\ tkPc' = "raised"
    /\ UNCHANGED <<tkData, tkIndex, tkUsed, tkResolved, tkDir, tkWritten, tkMarkdown,
                   ticketRest>>

\* The ticket is kept: os.makedirs creates ticket_dir.
TicketMakeDir ==
    /\ tkPc = "start"
    /\ ~SkipsOnDescription(tkData)
    /\ ~AttachmentsNotList(tkData)
    /\ ~ExtractRaises(Comments(tkData), Notes(tkData))
    /\ ~SkipsOnMessages(extract_messages(Comments(tkData), Notes(tkData)),
                        AttachmentsRaw(tkData))
    /\ ~FieldRaises(tkData)
    /\ tkMessages' = extract_messages(Comments(tkData), Notes(tkData))
    /\ tkDir' = TicketDir(tkData)
    /\ tkPc' = "attachments"
    /\ UNCHANGED <<tkData, tkIndex, tkUsed, tkResolved, tkWritten, tkMarkdown,
                   ticketRest>>

\* The entry the loop of extract_attachments handles next.
TkCurrent == AttachmentsRaw(tkData)[tkIndex + 1]

\* One iteration of extract_attachments that completes: the file is written
\* and the entry is appended to resolved with its resolved_name.
TicketWriteAttachment ==
    /\ tkPc = "attachments"
    /\ tkIndex < Len(AttachmentsRaw(tkData))
    /\ IsDict(TkCurrent)
    /\ ~NameRaises(TkCurrent)
    /\ ~PayloadRaises(TkCurrent)
    /\ LET name == SafeName(TkCurrent, tkUsed)
       IN  /\ tkUsed' = tkUsed \cup {name}
           /\ tkWritten' = Append(tkWritten, name)
           /\ tkResolved' = Append(tkResolved, [resolved_name |-> name] @@ TkCurrent)
    /\ tkIndex' = tkIndex + 1
    /\ UNCHANGED <<tkData, tkPc, tkMessages, tkDir, tkMarkdown, ticketRest>>

\* One iteration that raises, as in WriteAttachmentRaises.
TicketAttachmentRaises ==
    /\ tkPc = "attachments"
    /\ tkIndex < Len(AttachmentsRaw(tkData))
    /\ \/ ~IsDict(TkCurrent) /\ tkUsed' = tkUsed
       \/ IsDict(TkCurrent) /\ NameRaises(TkCurrent) /\ tkUsed' = tkUsed
       \/ /\ IsDict(TkCurrent)
          /\ ~NameRaises(TkCurrent)
          /\ PayloadRaises(TkCurrent)
          /\ tkUsed' = tkUsed \cup {SafeName(TkCurrent, tkUsed)}
    /\ tkPc' = "raised"
    /\ UNCHANGED <<tkData, tkMessages, tkIndex, tkResolved, tkDir, tkWritten,
                   tkMarkdown, ticketRest>>

\* build_timeline raises: ticket.md is not written.
TicketTimelineRaises ==
    /\ tkPc = "attachments"
    /\ tkIndex = Len(AttachmentsRaw(tkData))
    /\ BuildTimelineRaises(tkMessages, tkResolved)
    /\ tkPc' = "raised"
    /\ UNCHANGED <<tkData, tkMessages, tkIndex, tkUsed, tkResolved, tkDir, tkWritten,
                   tkMarkdown, ticketRest>>

\* The timeline is built and rendered, and ticket.md is written.
TicketWriteMarkdown ==
    /\ tkPc = "attachments"
    /\ tkIndex = Len(AttachmentsRaw(tkData))
    /\ ~BuildTimelineRaises(tkMessages, tkResolved)
    /\ tkMarkdown' = build_ticket_markdown(IncidentNumber(tkData),
                                           ShortDescription(tkData),
                                           Status(tkData), Opened(tkData),
                                           Closed(tkData),
                                           build_timeline(tkMessages, tkResolved))
    /\ tkWritten' = Append(tkWritten, TicketMd)
    /\ tkPc' = "returned"
    /\ UNCHANGED <<tkData, tkMessages, tkIndex, tkUsed, tkResolved, tkDir, ticketRest>>

NextTicket ==
    \/ TicketSkippedOnDescription
    \/ TicketAttachmentsNotList
    \/ TicketExtractRaises
    \/ TicketSkippedOnMessages
    \/ TicketFieldRaises
    \/ TicketMakeDir
    \/ TicketWriteAttachment
    \/ TicketAttachmentRaises
    \/ TicketTimelineRaises
    \/ TicketWriteMarkdown

SpecTicket == InitTicket /\ [][NextTicket]_vars

(***************************************************************************)
(* C6, C7, C8 -- what process_ticket_file writes, and when.                *)
(***************************************************************************)
TkTerminated == tkPc \in {"returned", "raised"}

\* The record's attachments value has no attachment in it.
TkNoAttachments == ~AttachmentsNotList(tkData) /\ AttachmentsRaw(tkData) = <<>>

\* The skip cases: a short description on the skip list, or extract_messages
\* is reached and yields no message, or one message for a record without
\* attachments.
TkSkipCase ==
    \/ is_iris_pi_request(ShortDescription(tkData))
    \/ is_storage_quota_increase(ShortDescription(tkData))
    \/ /\ ~AttachmentsNotList(tkData)
       /\ ~ExtractRaises(Comments(tkData), Notes(tkData))
       /\ LET n == Len(extract_messages(Comments(tkData), Notes(tkData)))
          IN  n = 0 \/ (n = 1 /\ Len(AttachmentsRaw(tkData)) = 0)

\* C6: in a skip case process_ticket_file returns, and it creates no ticket
\* directory and writes neither an attachment nor ticket.md; in every other
\* case that returns, the files written are the attachments, each under its
\* resolved name and in their order, followed by ticket.md, which is written
\* once; and at no time is ticket.md written before the last attachment.
C6_SkipPolicy ==
    /\ TkSkipCase =>
          /\ tkPc \in {"start", "returned"}
          /\ tkDir = <<>>
          /\ tkWritten = <<>>
          /\ tkMarkdown = <<>>
    /\ (~TkSkipCase /\ tkPc = "returned") =>
          /\ tkDir = TicketDir(tkData)
          /\ Len(tkWritten) = Len(AttachmentsRaw(tkData)) + 1
          /\ \A i \in 1..Len(AttachmentsRaw(tkData)) :
                /\ tkWritten[i] = tkResolved[i].resolved_name
                /\ tkWritten[i] # TicketMd
          /\ tkWritten[Len(tkWritten)] = TicketMd
    /\ \A i \in 1..Len(tkWritten) :
          tkWritten[i] = TicketMd =>
              /\ i = Len(tkWritten)
              /\ tkIndex = Len(AttachmentsRaw(tkData))
              /\ tkPc = "returned"

\* A record of one message and no attachment, skipped: the call has
\* returned and nothing exists.
C6_Witness ==
    /\ tkPc = "returned"
    /\ ~SkipsOnDescription(tkData)
    /\ Len(tkMessages) = 1
    /\ TkNoAttachments
    /\ tkDir = <<>>
    /\ tkWritten = <<>>

\* The records of the end-to-end scenario: no note, no attachment, a short
\* description off the skip list and the incident fields in order.
TkOneComment ==
    /\ Len(Comments(tkData)) = 1
    /\ Notes(tkData) = <<>>
    /\ TkNoAttachments

TkTwoComments ==
    /\ Len(Comments(tkData)) = 2
    /\ Notes(tkData) = <<>>
    /\ TkNoAttachments
    /\ ~SkipsOnDescription(tkData)
    /\ ~FieldRaises(tkData)

\* C7 as the specification states it: one customer comment and no
\* attachment give no folder, and two customer comments give a folder that
\* holds ticket.md.
C7_TwoCommentsGiveTicket ==
    /\ TkOneComment => tkDir = <<>>
    /\ (TkTwoComments /\ TkTerminated) =>
          /\ tkDir = TicketDir(tkData)
          /\ tkWritten = <<TicketMd>>

\* A comment that becomes a message with a usable timestamp: its author is
\* present and is not the system, and its timestamp resolves and parses.
TkUsableComment(comment) ==
    /\ ~EntrySkipped(comment)
    /\ ~EntryRaises(comment)
    /\ ~RequireRaises(resolve_message_timestamp(comment))
    /\ ~ParseRaises(resolve_message_timestamp(comment))

TkCleaned(comment) ==
    clean_message_text(TextOrEmpty(comment), Get(comment, "created_by"))

\* C7: one customer comment and no attachment give no folder; two customer
\* comments give a folder that holds ticket.md when both are usable, their
\* cleaned texts differ, and their timestamps are both with or both without
\* a UTC offset.
C7_TwoDistinctCommentsGiveTicket ==
    /\ TkOneComment => tkDir = <<>>
    /\ ( /\ TkTwoComments
         /\ TkTerminated
         /\ TkUsableComment(Comments(tkData)[1])
         /\ TkUsableComment(Comments(tkData)[2])
         /\ TkCleaned(Comments(tkData)[1]) # TkCleaned(Comments(tkData)[2])
         /\ parse_timestamp(resolve_message_timestamp(Comments(tkData)[1])).aware
              = parse_timestamp(resolve_message_timestamp(Comments(tkData)[2])).aware )
       => /\ tkPc = "returned"
          /\ tkDir = TicketDir(tkData)
          /\ tkWritten = <<TicketMd>>

\* Two usable comments of different texts, rendered: the folder holds
\* ticket.md, with a heading for each of the two messages.
C7_Witness ==
    /\ TkTwoComments
    /\ tkPc = "returned"
    /\ Len(tkMessages) = 2
    /\ tkDir = TicketDir(tkData)
    /\ tkWritten = <<TicketMd>>
    /\ Len(SelectSeq(tkMarkdown, LAMBDA line : line # <<>> /\ Head(line) = "## ")) = 2

\* A timestamp that does not resolve, or does not parse.
TkBadStamp(value) == RequireRaises(value) \/ ParseRaises(value)

\* Some comment, note or attachment of the record has a bad timestamp.
TkAnyBadStamp ==
    \/ \E i \in 1..Len(Comments(tkData)) :
          TkBadStamp(resolve_message_timestamp(Comments(tkData)[i]))
    \/ \E i \in 1..Len(Notes(tkData)) :
          TkBadStamp(resolve_message_timestamp(Notes(tkData)[i]))
    \/ \E i \in 1..Len(AttachmentsRaw(tkData)) :
          TkBadStamp(resolve_attachment_timestamp(AttachmentsRaw(tkData)[i]))

\* C8 as the specification states it: a record with a bad timestamp in any
\* comment, note or attachment makes process_ticket_file fail, and ticket.md
\* is not written.
C8_BadTimestampFails ==
    TkAnyBadStamp =>
        /\ \A i \in 1..Len(tkWritten) : tkWritten[i] # TicketMd
        /\ TkTerminated => tkPc = "raised"

\* Some message that extract_messages returns, or some attachment, has a
\* bad timestamp.
TkKeptBadStamp ==
    \/ /\ ~ExtractRaises(Comments(tkData), Notes(tkData))
       /\ \E i \in 1..Len(extract_messages(Comments(tkData), Notes(tkData))) :
             TkBadStamp(resolve_message_timestamp(
                 extract_messages(Comments(tkData), Notes(tkData))[i]))
    \/ \E i \in 1..Len(AttachmentsRaw(tkData)) :
          TkBadStamp(resolve_attachment_timestamp(AttachmentsRaw(tkData)[i]))

\* C8: when a message that extract_messages returns, or an attachment, has
\* a bad timestamp, ticket.md is never written, and process_ticket_file
\* raises unless the ticket is one of the skip cases.
C8_KeptBadTimestampFails ==
    TkKeptBadStamp =>
        /\ \A i \in 1..Len(tkWritten) : tkWritten[i] # TicketMd
        /\ (TkTerminated /\ ~TkSkipCase) => tkPc = "raised"

\* An attachment with a bad timestamp: its file is written, then
\* build_timeline raises, and the folder is left without ticket.md.
C8_Witness ==
    /\ tkPc = "raised"
    /\ tkDir # <<>>
    /\ tkIndex = Len(AttachmentsRaw(tkData))
    /\ Len(tkWritten) >= 1
    /\ \E i \in 1..Len(tkResolved) :
          TkBadStamp(resolve_attachment_timestamp(tkResolved[i]))
    /\ \A i \in 1..Len(tkMessages) :
          ~TkBadStamp(resolve_message_timestamp(tkMessages[i]))

(***************************************************************************)
(* SpecMain: main_async.  One process_with_limit task per incident file;   *)
(* a task waits for the semaphore, hands process_ticket_file to a worker   *)
(* thread of the default executor, where it is queued until a thread takes *)
(* it, and completes when the thread is done; main_async awaits the tasks  *)
(* in the order in which they complete.  A file is a kind of         *)
(* pipeline: one that writes ticket.md, one that skips its ticket, one     *)
(* that raises.  os.cpu_count() returning None is modelled as 0.  With at  *)
(* most MaxFiles files the default executor, of min(32, cpu_count + 4)     *)
(* threads, has a thread for every task that holds a permit.               *)
(***************************************************************************)
FileKinds == {"writes", "skips", "raises"}

Min(a, b) == IF a <= b THEN a ELSE b

\* min(32, (os.cpu_count() or 4) * 2)
max_workers(cpu_count) == Min(32, (IF cpu_count = 0 THEN 4 ELSE cpu_count) * 2)

InitMain ==
    /\ mnCpuCount \in 0..MaxCpuCount
    /\ mnFiles \in SeqsUpTo(FileKinds, MaxFiles)
    /\ mnTask = <<>>
    /\ mnThread = <<>>
    /\ mnPermits = 0
    /\ mnCompleted = <<>>
    /\ mnMain = "start"
    /\ mnDone = 0
    /\ mnWritten = {}
    /\ CleanIdle /\ NamesIdle /\ ExtractIdle /\ TimelineIdle /\ TicketIdle
    /\ FoldersIdle

\* total == 0: main_async raises ValueError before any task exists.
MainNoFiles ==
    /\ mnMain = "start"
    /\ Len(mnFiles) = 0
    /\ mnMain' = "aborted"
    /\ UNCHANGED <<mnCpuCount, mnFiles, mnTask, mnThread, mnPermits, mnCompleted,
                   mnDone, mnWritten, mainRest>>

\* The semaphore and the tasks are created (lines 657-665).
MainCreatesTasks ==
    /\ mnMain = "start"
    /\ Len(mnFiles) > 0
    /\ mnPermits' = max_workers(mnCpuCount)
    /\ mnTask' = [i \in 1..Len(mnFiles) |-> "waiting"]
    /\ mnThread' = [i \in 1..Len(mnFiles) |-> "none"]
    /\ mnMain' = "looping"
    /\ UNCHANGED <<mnCpuCount, mnFiles, mnCompleted, mnDone, mnWritten, mainRest>>

\* `async with semaphore`, then asyncio.to_thread: the waiting task that
\* was created first takes a permit and submits its call to the executor.
TaskAcquires(i) ==
    /\ mnTask[i] = "waiting"
    /\ \A j \in 1..(i - 1) : mnTask[j] # "waiting"
    /\ mnPermits > 0
    /\ mnPermits' = mnPermits - 1
    /\ mnTask' = [mnTask EXCEPT ![i] = "running"]
    /\ mnThread' = [mnThread EXCEPT ![i] = "queued"]
    /\ UNCHANGED <<mnCpuCount, mnFiles, mnCompleted, mnMain, mnDone, mnWritten,
                   mainRest>>

\* A worker thread takes the call from the executor's queue.  When it does
\* is up to the thread scheduler.
ThreadStarts(i) ==
    /\ mnThread[i] = "queued"
    /\ mnThread' = [mnThread EXCEPT ![i] = "running"]
    /\ UNCHANGED <<mnCpuCount, mnFiles, mnTask, mnPermits, mnCompleted, mnMain,
                   mnDone, mnWritten, mainRest>>

\* The worker thread runs process_ticket_file to its end.  A running thread
\* cannot be cancelled: it runs on even when its task has been.
ThreadWrites(i) ==
    /\ mnThread[i] = "running"
    /\ mnFiles[i] = "writes"
    /\ mnThread' = [mnThread EXCEPT ![i] = "returned"]
    /\ mnWritten' = mnWritten \cup {i}
    /\ UNCHANGED <<mnCpuCount, mnFiles, mnTask, mnPermits, mnCompleted, mnMain,
                   mnDone, mainRest>>

ThreadSkips(i) ==
    /\ mnThread[i] = "running"
    /\ mnFiles[i] = "skips"
    /\ mnThread' = [mnThread EXCEPT ![i] = "returned"]
    /\ UNCHANGED <<mnCpuCount, mnFiles, mnTask, mnPermits, mnCompleted, mnMain,
                   mnDone, mnWritten, mainRest>>

ThreadRaises(i) ==
    /\ mnThread[i] = "running"
    /\ mnFiles[i] = "raises"
    /\ mnThread' = [mnThread EXCEPT ![i] = "raised"]
    /\ UNCHANGED <<mnCpuCount, mnFiles, mnTask, mnPermits, mnCompleted, mnMain,
                   mnDone, mnWritten, mainRest>>

\* The event loop runs a task that can take a permit before it runs what a
\* finished thread made ready: the tasks are scheduled at their creation,
\* and a release schedules the next waiter before the releasing task is done.
AcquirePending ==
    /\ mnPermits > 0
    /\ \E i \in 1..Len(mnTask) : mnTask[i] = "waiting"

\* The task resumes after its thread: it leaves `async with`, which gives
\* the permit back, and is done, with the thread's result or exception.
TaskCompletes(i) ==
    /\ ~AcquirePending
    /\ mnTask[i] = "running"
    /\ mnThread[i] \in {"returned", "raised"}
    /\ mnTask' = [mnTask EXCEPT ![i] = mnThread[i]]
    /\ mnPermits' = mnPermits + 1
    /\ mnCompleted' = Append(mnCompleted, i)
    /\ UNCHANGED <<mnCpuCount, mnFiles, mnThread, mnMain, mnDone, mnWritten,
                   mainRest>>

\* `await task` on a task that returned: done is counted, and after the
\* last task main_async writes AGENTS.md and returns.
MainAwaitsReturned ==
    /\ mnMain = "looping"
    /\ ~AcquirePending
    /\ mnCompleted # <<>>
    /\ mnTask[Head(mnCompleted)] = "returned"
    /\ mnCompleted' = Tail(mnCompleted)
    /\ mnDone' = mnDone + 1
    /\ mnMain' = IF mnDone + 1 = Len(mnFiles) THEN "finished" ELSE "looping"
    /\ UNCHANGED <<mnCpuCount, mnFiles, mnTask, mnThread, mnPermits, mnWritten,
                   mainRest>>

\* `await task` on a task that raised: nothing catches the exception, so
\* main_async raises it, and asyncio.run cancels every task that is not
\* done: a waiting task never submits its call, and a call that no thread
\* has taken yet is cancelled with its task.
MainAwaitsRaised ==
    /\ mnMain = "looping"
    /\ ~AcquirePending
    /\ mnCompleted # <<>>
    /\ mnTask[Head(mnCompleted)] = "raised"
    /\ mnCompleted' = Tail(mnCompleted)
    /\ mnMain' = "aborted"
    /\ mnTask' = [i \in 1..Len(mnTask) |->
                     IF mnTask[i] \in {"waiting", "running"} THEN "cancelled"
                     ELSE mnTask[i]]
    /\ mnThread' = [i \in 1..Len(mnThread) |->
                       IF mnThread[i] = "queued" THEN "cancelled" ELSE mnThread[i]]
    /\ UNCHANGED <<mnCpuCount, mnFiles, mnPermits, mnDone, mnWritten, mainRest>>

NextMain ==
    \/ MainNoFiles
    \/ MainCreatesTasks
    \/ \E i \in 1..Len(mnTask) : TaskAcquires(i)
    \/ \E i \in 1..Len(mnTask) : ThreadStarts(i)
    \/ \E i \in 1..Len(mnTask) : ThreadWrites(i)
    \/ \E i \in 1..Len(mnTask) : ThreadSkips(i)
    \/ \E i \in 1..Len(mnTask) : ThreadRaises(i)
    \/ \E i \in 1..Len(mnTask) : TaskCompletes(i)
    \/ MainAwaitsReturned
    \/ MainAwaitsRaised

SpecMain == InitMain /\ [][NextMain]_vars

(***************************************************************************)
(* C10 -- a failing file and its siblings.                                 *)
(***************************************************************************)
\* main_async is over and no worker thread is still running.
MainQuiescent ==
    /\ mnMain \in {"finished", "aborted"}
    /\ \A i \in 1..Len(mnThread) : mnThread[i] \notin {"queued", "running"}

\* C10 as the specification states it: once main_async is over and the
\* worker threads are done, every file whose pipeline writes a ticket has
\* had its thread started and its ticket.md written, whatever the other
\* files did.
C10_SiblingsRunToCompletion ==
    MainQuiescent =>
        \A i \in 1..Len(mnFiles) :
            mnFiles[i] = "writes" => mnThread[i] = "returned" /\ i \in mnWritten

(***************************************************************************)
(* SpecFolders: the pipelines of several incident files on one output      *)
(* tree.  main_async starts one process_ticket_file per file through       *)
(* asyncio.to_thread; max_workers is at least 2, and os.cpu_count() is     *)
(* taken large enough for every file to hold a permit, so the threads run  *)
(* side by side and their file writes interleave freely.  Each pipeline    *)
(* is cut at its writes, as in SpecTicket.                                 *)
(***************************************************************************)
\* base64.b64decode on the strings of ValidBase64.
B64Decode(value) ==
    IF value = <<"SGVsbG8=">> THEN <<"H", "e", "l", "l", "o">> ELSE <<>>

\* attachment_bytes on an attachment that does not raise: the decoded value
\* of the first content key that is present.
RECURSIVE attachment_bytes(_, _)
attachment_bytes(attachment, keys) ==
    IF Get(attachment, Head(keys)) = None
    THEN attachment_bytes(attachment, Tail(keys))
    ELSE B64Decode(Get(attachment, Head(keys)))

\* The bytes of a source file on disk.
FileBytes(path) == <<"bytes of ">> \o path

\* What write_attachment leaves at dest_path: the copy of the source file,
\* or the decoded payload.
WrittenBytes(attachment) ==
    IF Get(attachment, "file_path") \in ExistingFiles
    THEN FileBytes(Get(attachment, "file_path"))
    ELSE attachment_bytes(attachment, ATTACHMENT_CONTENT_KEYS)

\* write_attachment raises on this entry of the list.
WriteAttachmentFails(entry) ==
    \/ ~IsDict(entry)
    \/ NameRaises(entry)
    \/ PayloadRaises(entry)

\* extract_attachments raises on one of the entries.
ExtractAttachmentsRaises(attachments) ==
    \E i \in 1..Len(attachments) : WriteAttachmentFails(attachments[i])

\* The files extract_attachments writes, in order, until it ends or raises.
RECURSIVE AttachmentWrites(_, _)
AttachmentWrites(attachments, used) ==
    IF attachments = <<>> \/ WriteAttachmentFails(Head(attachments)) THEN <<>>
    ELSE LET name == SafeName(Head(attachments), used)
         IN  <<[name |-> name, content |-> WrittenBytes(Head(attachments))]>>
                 \o AttachmentWrites(Tail(attachments), used \cup {name})

\* The list extract_attachments returns when no entry raises.
RECURSIVE extract_attachments(_, _)
extract_attachments(attachments, used) ==
    IF attachments = <<>> THEN <<>>
    ELSE LET name == SafeName(Head(attachments), used)
         IN  <<[resolved_name |-> name] @@ Head(attachments)>>
                 \o extract_attachments(Tail(attachments), used \cup {name})

\* process_ticket_file reaches os.makedirs: the ticket is kept.
KeepsTicket(data) ==
    /\ ~SkipsOnDescription(data)
    /\ ~AttachmentsNotList(data)
    /\ ~ExtractRaises(Comments(data), Notes(data))
    /\ ~SkipsOnMessages(extract_messages(Comments(data), Notes(data)),
                        AttachmentsRaw(data))
    /\ ~FieldRaises(data)

\* How a call that does not reach os.makedirs ends.
EarlyOutcome(data) ==
    IF SkipsOnDescription(data) THEN "returned"
    ELSE IF AttachmentsNotList(data) THEN "raised"
    ELSE IF ExtractRaises(Comments(data), Notes(data)) THEN "raised"
    ELSE IF SkipsOnMessages(extract_messages(Comments(data), Notes(data)),
                            AttachmentsRaw(data)) THEN "returned"
    ELSE "raised"

\* A kept ticket whose ticket.md is written: neither extract_attachments
\* nor build_timeline raises.
WritesMarkdown(data) ==
    /\ ~ExtractAttachmentsRaises(AttachmentsRaw(data))
    /\ ~BuildTimelineRaises(extract_messages(Comments(data), Notes(data)),
                            extract_attachments(AttachmentsRaw(data), {}))

\* The content of ticket.md for a kept ticket.
TicketMarkdown(data) ==
    build_ticket_markdown(IncidentNumber(data), ShortDescription(data), Status(data),
                          Opened(data), Closed(data),
                          build_timeline(extract_messages(Comments(data), Notes(data)),
                                         extract_attachments(AttachmentsRaw(data), {})))

\* The files a kept ticket writes into its ticket directory, in order: the
\* attachments, then ticket.md.
PipelineWrites(data) ==
    IF WritesMarkdown(data)
    THEN Append(AttachmentWrites(AttachmentsRaw(data), {}),
                [name |-> TicketMd, content |-> TicketMarkdown(data)])
    ELSE AttachmentWrites(AttachmentsRaw(data), {})

\* open(path, "w") / open(path, "wb") / shutil.copyfile: the file at the
\* path is created or replaced.
WriteFile(files, dir, write) ==
    {f \in files : ~(f.dir = dir /\ f.name = write.name)}
        \cup {[dir |-> dir, name |-> write.name, content |-> write.content]}

\* The incident files of the pipelines: INC0000001 exported twice, the
\* second time after its state has changed, and INC0000006.
FdHeaders ==
    { [metadata |-> [incident_number |-> <<"INC0000001">>],
       incident_fields |-> [short_description |-> <<"Login fails">>,
                            state |-> <<"Closed">>,
                            opened_at |-> OpenedJan,
                            closed_at |-> ClosedJan]],
      [metadata |-> [incident_number |-> <<"INC0000001">>],
       incident_fields |-> [short_description |-> <<"Login fails">>,
                            state |-> <<"In Progress">>,
                            opened_at |-> OpenedJan]],
      [metadata |-> <<>>,
       incident_fields |-> [short_description |-> <<"Disk full">>,
                            number |-> <<"INC0000006">>,
                            state |-> <<"New">>,
                            sys_created_on |-> OpenedFeb]] }

FdComments ==
    { <<[created_by |-> AuthorJohn, text |-> BodyPlain] @@ StampT1000T>>,
      <<[created_by |-> AuthorJohn, text |-> BodyPlain] @@ StampT1000T,
        [created_by |-> AuthorJohn, text |-> BodySignoff] @@ StampT0900>>,
      <<[created_by |-> AuthorJohn, text |-> BodyPlain] @@ StampT1000T,
        [created_by |-> AuthorJohn, text |-> BodySignoff] @@ StampBad>> }

FdAttachments ==
    { <<>>,
      <<[file_name |-> LogTxt, content_base64 |-> <<"SGVsbG8=">>] @@ StampT1000T>>,
      <<[file_name |-> LogTxt, file_path |-> <<"/exports/log.txt">>] @@ StampT1000>> }

\* At most MaxFdFiles incident files, none of whose pipelines has started,
\* and an empty output tree.
InitFolders ==
    /\ \E n \in 0..MaxFdFiles :
       \E h \in [1..n -> FdHeaders] :
       \E c \in [1..n -> FdComments] :
       \E a \in [1..n -> FdAttachments] :
          fdData = [i \in 1..n |->
                       TkRecord(h[i], c[i], <<>>, [py_type |-> "list", items |-> a[i]])]
    /\ fdPc = [i \in 1..Len(fdData) |-> "queued"]
    /\ fdStep = [i \in 1..Len(fdData) |-> 0]
    /\ fdDirs = {}
    /\ fdFiles = {}
    /\ fdWriters = {}
    /\ CleanIdle /\ NamesIdle /\ ExtractIdle /\ TimelineIdle /\ TicketIdle /\ MainIdle

\* Lines 577-619 of a call that returns or raises before os.makedirs.
PipelineEndsEarly(i) ==
    /\ fdPc[i] = "queued"
    /\ ~KeepsTicket(fdData[i])
    /\ fdPc' = [fdPc EXCEPT ![i] = EarlyOutcome(fdData[i])]
    /\ UNCHANGED <<fdData, fdStep, fdDirs, fdFiles, fdWriters, foldersRest>>

\* Lines 577-622 of a call that keeps its ticket: os.makedirs(ticket_dir,
\* exist_ok=True).
PipelineMakesDir(i) ==
    /\ fdPc[i] = "queued"
    /\ KeepsTicket(fdData[i])
    /\ fdDirs' = fdDirs \cup {TicketDir(fdData[i])}
    /\ fdPc' = [fdPc EXCEPT ![i] = "writing"]
    /\ UNCHANGED <<fdData, fdStep, fdFiles, fdWriters, foldersRest>>

\* The next write of the call: an attachment in extract_attachments, or
\* ticket.md at lines 636-637.
PipelineWritesFile(i) ==
    /\ fdPc[i] = "writing"
    /\ fdStep[i] < Len(PipelineWrites(fdData[i]))
    /\ LET write == PipelineWrites(fdData[i])[fdStep[i] + 1]
       IN  /\ fdFiles' = WriteFile(fdFiles, TicketDir(fdData[i]), write)
           /\ fdWriters' = fdWriters \cup
                  {[dir |-> TicketDir(fdData[i]), name |-> write.name, by |-> i]}
    /\ fdStep' = [fdStep EXCEPT ![i] = fdStep[i] + 1]
    /\ UNCHANGED <<fdData, fdPc, fdDirs, foldersRest>>

\* The call is over: it returns after ticket.md, or extract_attachments or
\* build_timeline has raised.
PipelineEnds(i) ==
    /\ fdPc[i] = "writing"
    /\ fdStep[i] = Len(PipelineWrites(fdData[i]))
    /\ fdPc' = [fdPc EXCEPT ![i] =
                   IF WritesMarkdown(fdData[i]) THEN "returned" ELSE "raised"]
    /\ UNCHANGED <<fdData, fdStep, fdDirs, fdFiles, fdWriters, foldersRest>>

NextFolders ==
    \/ \E i \in 1..Len(fdData) : PipelineEndsEarly(i)
    \/ \E i \in 1..Len(fdData) : PipelineMakesDir(i)
    \/ \E i \in 1..Len(fdData) : PipelineWritesFile(i)
    \/ \E i \in 1..Len(fdData) : PipelineEnds(i)

SpecFolders == InitFolders /\ [][NextFolders]_vars

(***************************************************************************)
(* C11 -- pipelines that run side by side and their output folders.        *)
(***************************************************************************)
\* Every pipeline is over.
FdAllOver == \A i \in 1..Len(fdPc) : fdPc[i] \in {"returned", "raised"}

\* The output tree after the pipelines of the files have run one after the
\* other, in the order of the list.
RECURSIVE FdApplyWrites(_, _, _)
FdApplyWrites(files, dir, writes) ==
    IF writes = <<>> THEN files
    ELSE FdApplyWrites(WriteFile(files, dir, Head(writes)), dir, Tail(writes))

RECURSIVE FdInOrder(_, _)
FdInOrder(files, data) ==
    IF data = <<>> THEN files
    ELSE FdInOrder(IF KeepsTicket(Head(data))
                   THEN FdApplyWrites(files, TicketDir(Head(data)),
                                      PipelineWrites(Head(data)))
                   ELSE files,
                   Tail(data))

\* No path is written by two pipelines.
FdNoSharedPath ==
    \A w1 \in fdWriters : \A w2 \in fdWriters :
        w1.dir = w2.dir /\ w1.name = w2.name => w1.by = w2.by

\* Once every pipeline is over, the output tree is the one the pipelines
\* leave when they run one after the other.
FdSameResult == FdAllOver => fdFiles = FdInOrder({}, fdData)

\* C11 as the specification states it: the pipelines that main_async runs
\* side by side never write to the same path, so the final content of every
\* ticket folder is the same under every interleaving.
C11_DisjointFoldersSameResult == FdNoSharedPath /\ FdSameResult

(***************************************************************************)
(* SpecTimelineNames: build_timeline on attachments whose resolved_name    *)
(* may repeat.  build_timeline takes any list of attachments; it does not  *)
(* rely on the names being distinct.                                       *)
(***************************************************************************)
TlNamedMessages ==
    { [created_by |-> <<"John Smith">>, internal |-> FALSE, text |-> BodyPlain] @@ st :
        st \in {StampT1000T, StampT0900, StampBad} }

TlNamedAttachments ==
    { [resolved_name |-> name] @@ st :
        name \in {LogTxt, Log2Txt}, st \in {StampT1000T, StampT0900, StampBad} }

InitTimelineNames ==
    /\ tlMessages \in SeqsUpTo(TlNamedMessages, MaxTlMessages)
    /\ tlAttachments \in SeqsUpTo(TlNamedAttachments, MaxTlAttachments)
    /\ tlSorted = <<>>
    /\ tlMerged = <<>>
    /\ tlStatus = "running"
    /\ CleanIdle /\ NamesIdle /\ ExtractIdle /\ TicketIdle /\ MainIdle
    /\ FoldersIdle

SpecTimelineNames == InitTimelineNames /\ [][NextTimeline]_vars

(***************************************************************************)
(* C12 -- build_timeline loses and duplicates nothing.                     *)
(***************************************************************************)
\* The positions of the merged timeline that hold the message of an order.
TlMessagePositions(k) ==
    {p \in 1..Len(tlMerged) : tlMerged[p].type = "message" /\ tlMerged[p].order = k}

\* How often a name occurs in the files lists of the attachments entries.
TlFileOccurrences(name) ==
    Cardinality(UNION {
        {<<p, f>> : f \in {f \in 1..Len(tlMerged[p].files) : tlMerged[p].files[f] = name}} :
            p \in {p \in 1..Len(tlMerged) : tlMerged[p].type = "attachments"}})

\* How often a name occurs as the resolved_name of an attachment passed in.
TlNameMultiplicity(name) ==
    Cardinality({i \in 1..Len(tlAttachments) : tlAttachments[i].resolved_name = name})

\* The entries in output order, every group expanded to its files.
RECURSIVE TlExpanded(_)
TlExpanded(merged) ==
    IF merged = <<>> THEN <<>>
    ELSE IF Head(merged).type = "attachments"
         THEN [f \in 1..Len(Head(merged).files) |->
                  [type |-> "file", file |-> Head(merged).files[f]]]
                  \o TlExpanded(Tail(merged))
         ELSE <<Head(merged)>> \o TlExpanded(Tail(merged))

\* The sorted items, every attachment reduced to its file.
TlSortedFiles ==
    [i \in 1..Len(tlSorted) |->
        IF tlSorted[i].type = "attachment"
        THEN [type |-> "file", file |-> tlSorted[i].file]
        ELSE tlSorted[i]]

\* C12: when build_timeline returns, every message passed in is exactly one
\* message entry, every resolved_name occurs in the files lists as often as
\* it was passed in, there is no other entry, and the entries in output
\* order, groups expanded to their files, are the sorted item sequence.
C12_NothingLostNothingDuplicated ==
    tlStatus = "returned" =>
        /\ \A k \in 1..Len(tlMessages) :
              /\ Cardinality(TlMessagePositions(k - 1)) = 1
              /\ \A p \in TlMessagePositions(k - 1) :
                    tlMerged[p] = MessageItem(tlMessages[k], k - 1)
        /\ \A i \in 1..Len(tlAttachments) :
              TlFileOccurrences(tlAttachments[i].resolved_name)
                  = TlNameMultiplicity(tlAttachments[i].resolved_name)
        /\ \A p \in 1..Len(tlMerged) :
              \/ /\ tlMerged[p].type = "message"
                 /\ tlMerged[p].order \in 0..(Len(tlMessages) - 1)
              \/ /\ tlMerged[p].type = "attachments"
                 /\ \A f \in 1..Len(tlMerged[p].files) :
                       TlNameMultiplicity(tlMerged[p].files[f]) > 0
        /\ TlExpanded(tlMerged) = TlSortedFiles

\* A returned timeline of two messages and three attachments, in which a
\* name passed twice occurs twice and a group holds two files.
C12_Witness ==
    /\ tlStatus = "returned"
    /\ Len(tlMessages) = 2
    /\ Len(tlAttachments) = 3
    /\ TlNameMultiplicity(LogTxt) = 2
    /\ TlFileOccurrences(LogTxt) = 2
    /\ \E p \in 1..Len(tlMerged) :
          tlMerged[p].type = "attachments" /\ Len(tlMerged[p].files) = 2
    /\ tlMerged[Len(tlMerged)].type = "attachments"

=============================================================================
